---- MODULE Spec2Model ----
(***************************************************************************)
(* The IX-F member import of peeringdb_server/ixf.py: Importer.update and  *)
(* the methods it calls, over a database of connection records (netixlans) *)
(* and proposals (IXFMemberData) of one IXLAN.                             *)
(*                                                                         *)
(* Every method of Importer is an operator from a world record w (the      *)
(* database tables, the cache, the importer object) to the world after the *)
(* call; the action Update applies the whole of Importer.update in one     *)
(* step.  The methods of IXFMemberData and IXLan live in models.py, which  *)
(* is not part of the sources at hand: they are modelled from the          *)
(* specification's words and marked so.                                    *)
(***************************************************************************)
EXTENDS Integers, Sequences, FiniteSets, TLC

VARIABLES
    netixlans,   \* NetworkIXLan table of the IXLAN: sequence, id = index
    proposals,   \* IXFMemberData table: set of rows, unique by identity key
    ixlan,       \* IXLan row: ixf_ixp_import_error, ixf_ixp_import_error_notified
    ix,          \* InternetExchange row: ixf_last_import, ixf_net_count
    cache,       \* django cache entry IXF-CACHE-<url>
    attempt,     \* IXLanIXFMemberImportAttempt.info of the IXLAN
    archive,     \* IXLanIXFMemberImportLog rows with their entries
    tickets,     \* DeskProTicket table
    emails,      \* IXFImportEmail table
    imp,         \* the Importer object
    ret,         \* what the last call of update returned
    now,         \* wall clock, in days
    settings,    \* django settings read by the importer
    runs,        \* number of update calls made so far
    txlog,       \* the decisions of the last run's transaction, in the order executed
    hist         \* the arguments of the last call of update, whether they repeat
                 \* those of the call before it, how that call ended, and the
                 \* last post-mortem report generated

vars == <<netixlans, proposals, ixlan, ix, cache, attempt, archive, tickets,
          emails, imp, ret, now, settings, runs, txlog, hist>>

----------------------------------------------------------------------------
(* Bounds of the model *)

\* update is called at most this many times
MaxRuns == 2
\* the clock runs from day 0 to this day
MaxTime == 2
MaxDispatches == 1
\* the number of ticket rows up to which _ticket is called on its own
MaxTickets == 2
\* the positions of the apply phase at which an exception is raised
MaxFault == 2

----------------------------------------------------------------------------
(* Values *)

None == "none"          \* Python None for an address or a string
NoId == 0               \* Python None for an id, an asn or a version
NoTime == -1            \* Python None for a timestamp
NoKey == <<NoId, None, None>>

\* the value v handed to the step F that follows it
Then(v, F(_)) == F(v)

\* settings.IXF_PARSE_ERROR_NOTIFICATION_PERIOD, in hours
IXF_PARSE_ERROR_NOTIFICATION_PERIOD == 36
\* EnvironmentSetting IXF_IMPORTER_DAYS_UNTIL_TICKET, in days
IXF_IMPORTER_DAYS_UNTIL_TICKET == 1
IXF_POSTMORTEM_LIMIT == 1
HoursPerDay == 24

\* a reason string: its leading text, the changed fields it lists, and the
\* note on the addresses a consolidation adds
Reason(text, fields, info) == <<text, fields, info>>
NoReason == Reason(None, {}, None)
REASON_ENTRY_GONE_FROM_REMOTE == Reason("entry gone from remote", {}, None)
REASON_NEW_ENTRY == Reason("new entry", {}, None)
REASON_VALUES_CHANGED(fields, info) == Reason("values changed", fields, info)

ERR_NO_VLANS == "No entries in any of the vlan_list lists, aborting."
ERR_NO_URL == "IXF import url not specified"
ERR_TRANSPORT == "transport error"
ERR_NOT_CACHED == "IX-F data not locally cached for this resource yet."
ERR_NO_PREFIXES == "No prefixes defined on ixlan"
ERR_KEY_ERROR == "Internal Error 'KeyError'"

allowed_member_types == {"peering", "ixp", "routeserver", "probono"}
allowed_states == {"", None, "active", "inactive", "connected", "operational"}

\* a connection without the key "state"
Absent == "<absent>"

\* str.lower on the state strings of the feeds
lower(state) ==
    IF state = "ACTIVE" THEN "active"
    ELSE IF state = "INACTIVE" THEN "inactive"
    ELSE state

----------------------------------------------------------------------------
(* The networks and prefixes of the database the importer reads *)

\* ASN 1 lets the exchange update its records, ASN 2 does not; ASN 3 lets it
\* and has switched IPv6 off, ASN 6 lets it and has switched IPv4 off; the
\* network of ASN 4 is not in status ok; ASN 7 does not let the exchange
\* update its records and has no contact
Asns == {1, 2, 3, 4, 6, 7}

Network(asn) ==
    [asn |-> asn,
     status |-> IF asn = 4 THEN "pending" ELSE "ok",
     allow_ixp_update |-> (asn \in {1, 3, 6}),
     ipv4_support |-> (asn # 6),
     ipv6_support |-> (asn # 3)]

NetworkExists(asn) == asn \in Asns

\* IXFMemberData.net_contacts and ix_contacts: whether the list is non-empty
net_contacts(asn) == asn # 7
ix_contacts == TRUE

\* addresses inside the active prefixes of the IXLAN
ActivePrefix4 == {"a4", "b4"}
ActivePrefix6 == {"a6", "b6"}

\* strings that ipaddress.ip_address rejects with a ValueError
InvalidAddresses == {"bad4", "bad6"}

test_ipv4_address(addr) == addr \in ActivePrefix4
test_ipv6_address(addr) == addr \in ActivePrefix6

IxfId(asn, v4, v6) == <<asn, v4, v6>>

----------------------------------------------------------------------------
(* IX-F documents *)

Vlan(v4, v6) == [ipv4 |-> v4, ipv6 |-> v6, routeserver |-> FALSE]
Conn(state, speeds, vlans) ==
    [state |-> state, if_list |-> speeds, vlan_list |-> vlans]
Member(asn, conns) ==
    [asnum |-> asn, member_type |-> "peering", connection_list |-> conns]
Doc(members) == [member_list |-> members, pdb_error |-> None]

\* the documents an exchange publishes, or a caller passes as data
Docs ==
    { Doc(<<Member(1, <<Conn("active", <<1>>, <<>>)>>)>>),
      Doc(<<Member(1, <<Conn("active", <<1>>, <<Vlan("a4", "a6")>>)>>)>>),
      Doc(<<Member(1, <<Conn("active", <<2>>, <<Vlan("a4", "a6")>>)>>)>>),
      Doc(<<Member(1, <<Conn("active", <<1>>,
                             <<Vlan("a4", None), Vlan(None, "a6")>>)>>)>>),
      Doc(<<Member(1, <<Conn("active", <<1>>, <<Vlan("a4", None)>>)>>)>>),
      Doc(<<Member(1, <<Conn("active", <<1>>, <<Vlan("b4", "a6")>>)>>)>>),
      Doc(<<Member(2, <<Conn("active", <<1>>, <<Vlan("b4", "b6")>>)>>)>>),
      Doc(<<Member(1, <<Conn("active", <<1>>, <<Vlan("a4", "a6")>>),
                        Conn("active", <<1>>, <<Vlan("a4", "a6")>>)>>)>>),
      Doc(<<Member(1, <<Conn("active", <<1>>, <<Vlan("a4", "a6")>>)>>),
            Member(2, <<Conn("active", <<2>>, <<Vlan("b4", None)>>)>>)>>) }

\* the documents a caller passes to update as data
DataDocs ==
    { Doc(<<Member(1, <<Conn("active", <<1>>, <<>>)>>)>>),
      Doc(<<Member(1, <<Conn("active", <<1>>, <<Vlan("a4", "a6")>>)>>)>>),
      Doc(<<Member(1, <<Conn("active", <<1>>,
                             <<Vlan("a4", None), Vlan(None, "a6")>>)>>)>>) }

\* a member of another member_type, or (asn = NoId) without the key "asnum"
MemberOf(asn, member_type, conns) ==
    [asnum |-> asn, member_type |-> member_type, connection_list |-> conns]

\* documents with members and connections the importer ignores, with a member
\* that lacks its asnum, and with rows of the networks that have switched a
\* protocol off
RowDocs ==
    { Doc(<<MemberOf(1, "other", <<Conn("active", <<1>>, <<Vlan("a4", "a6")>>)>>)>>),
      Doc(<<Member(1, <<Conn("active", <<1>>, <<Vlan("a4", "a6")>>)>>),
            MemberOf(2, "other", <<Conn("active", <<1>>, <<Vlan("b4", "b6")>>)>>)>>),
      Doc(<<Member(1, <<Conn("active", <<1>>, <<Vlan("a4", "a6")>>)>>),
            Member(5, <<Conn("active", <<1>>, <<Vlan("b4", "b6")>>)>>)>>),
      Doc(<<Member(4, <<Conn("active", <<1>>, <<Vlan("b4", "b6")>>)>>),
            Member(1, <<Conn("active", <<1>>, <<Vlan("a4", "a6")>>)>>)>>),
      Doc(<<Member(1, <<Conn("bogus", <<1>>, <<Vlan("b4", "b6")>>),
                        Conn("active", <<1>>, <<Vlan("a4", "a6")>>)>>)>>),
      Doc(<<Member(1, <<Conn("active", <<1>>, <<Vlan("a4", "a6")>>)>>),
            Member(NoId, <<Conn("active", <<1>>, <<Vlan("b4", "b6")>>)>>)>>),
      Doc(<<Member(3, <<Conn("active", <<1>>, <<Vlan("b4", "b6")>>)>>)>>),
      Doc(<<Member(3, <<Conn("active", <<1>>, <<Vlan(None, "b6")>>)>>)>>),
      Doc(<<Member(6, <<Conn("active", <<1>>, <<Vlan("a4", "a6")>>)>>)>>),
      Doc(<<Member(7, <<Conn("active", <<1>>, <<Vlan("b4", "b6")>>)>>)>>),
      Doc(<<Member(2, <<Conn("active", <<1>>, <<Vlan("b4", "b6")>>)>>)>>),
      Doc(<<Member(1, <<Conn("active", <<1>>, <<Vlan("a4", "a6")>>)>>)>>) }

\* keys(vlan): the address families the vlan entry carries
VlanKeys(vlan) ==
    (IF vlan.ipv4 # None THEN {"ipv4"} ELSE {}) \cup
    (IF vlan.ipv6 # None THEN {"ipv6"} ELSE {})

CountKey(vlans, key) ==
    Cardinality({i \in DOMAIN vlans : key \in VlanKeys(vlans[i])})

\* vlans[0].update(**vlans[1])
VlanUpdate(a, b) ==
    [ipv4 |-> IF b.ipv4 # None THEN b.ipv4 ELSE a.ipv4,
     ipv6 |-> IF b.ipv6 # None THEN b.ipv6 ELSE a.ipv6,
     routeserver |-> b.routeserver]

SanitizeConn(conn) ==
    LET vlans == conn.vlan_list IN
    IF Len(vlans) = 2 /\ CountKey(vlans, "ipv4") = 1 /\ CountKey(vlans, "ipv6") = 1
    THEN [conn EXCEPT !.vlan_list = <<VlanUpdate(vlans[1], vlans[2])>>]
    ELSE conn

SanitizeMember(member) ==
    [member EXCEPT !.connection_list =
        [i \in DOMAIN member.connection_list |->
            SanitizeConn(member.connection_list[i])]]

VlanListFound(data) ==
    \E i \in DOMAIN data.member_list :
        \E j \in DOMAIN data.member_list[i].connection_list :
            data.member_list[i].connection_list[j].vlan_list # <<>>

sanitize(data) ==
    [member_list |-> [i \in DOMAIN data.member_list |->
                        SanitizeMember(data.member_list[i])],
     pdb_error |-> IF VlanListFound(data) THEN None ELSE ERR_NO_VLANS]

ErrorDoc(msg) == [member_list |-> <<>>, pdb_error |-> msg]

\* what requests.get(url) brings back: a failure, or a document
Remotes == {[ok |-> FALSE, doc |-> ErrorDoc(ERR_TRANSPORT)]} \cup
           {[ok |-> TRUE, doc |-> d] : d \in Docs}

NoCache == ErrorDoc("nothing cached")

\* fetch(url): the data returned
FetchData(remote) == IF remote.ok THEN sanitize(remote.doc) ELSE ErrorDoc(ERR_TRANSPORT)

\* a fetch that caches whatever it returns
fetch_caches_errors(w, remote) == [w EXCEPT !.cache = FetchData(remote)]

\* fetch(url): the world after it (the cache entry)
fetch(w, remote) ==
    LET data == FetchData(remote) IN
    IF data.pdb_error = None THEN [w EXCEPT !.cache = data] ELSE w

fetch_cached(w) ==
    IF w.cache = NoCache THEN ErrorDoc(ERR_NOT_CACHED) ELSE w.cache

----------------------------------------------------------------------------
(* IXFMemberData and IXLan (models.py), modelled from the specification *)

Key(x) == IxfId(x.asn, x.ipaddr4, x.ipaddr6)

\* the IXLAN the importer runs for, and another one
ThisIxlan == "ixlan"
OtherIxlan == "other ixlan"

\* the persisted proposal with this identity key, as a set of at most one row
ProposalsAt(w, key) == {p \in w.proposals : Key(p) = key}

\* IXFMemberData.instantiate: the stored proposal of the key carrying the new
\* payload, or a fresh unsaved one
instantiate(w, asn, v4, v6, speed, operational, is_rs_peer, has_data) ==
    LET old == ProposalsAt(w, IxfId(asn, v4, v6))
        p == CHOOSE p \in old : TRUE
    IN  [asn |-> asn, ipaddr4 |-> v4, ipaddr6 |-> v6,
         speed |-> speed, operational |-> operational, is_rs_peer |-> is_rs_peer,
         has_data |-> has_data,
         ixlan |-> ThisIxlan,
         pk |-> old # {},
         reason |-> IF old # {} THEN p.reason ELSE NoReason,
         error |-> IF old # {} THEN p.error ELSE None,
         previous_error |-> IF old # {} THEN p.error ELSE None,
         deskpro_id |-> IF old # {} THEN p.deskpro_id ELSE NoId,
         created |-> IF old # {} THEN p.created ELSE NoTime,
         requirement_of |-> IF old # {} THEN p.requirement_of ELSE NoKey]

\* an instantiate that refuses every row with an address the network denies
ProtocolsDisabled_any(asn, v4, v6) ==
    \/ v4 # None /\ ~Network(asn).ipv4_support
    \/ v6 # None /\ ~Network(asn).ipv6_support

\* NetworkProtocolsDisabled: the network supports no protocol the row carries
ProtocolsDisabled(asn, v4, v6) ==
    /\ v4 # None => ~Network(asn).ipv4_support
    /\ v6 # None => ~Network(asn).ipv6_support

\* instantiate(validate_network_protocols=True): an address of a family the
\* network has switched off is left out of the proposal
Supported4(asn, v4) == IF Network(asn).ipv4_support THEN v4 ELSE None
Supported6(asn, v6) == IF Network(asn).ipv6_support THEN v6 ELSE None

\* IXFMemberData.save
Row(w, m) ==
    [asn |-> m.asn, ipaddr4 |-> m.ipaddr4, ipaddr6 |-> m.ipaddr6,
     speed |-> m.speed, operational |-> m.operational, is_rs_peer |-> m.is_rs_peer,
     has_data |-> m.has_data, ixlan |-> m.ixlan,
     reason |-> m.reason, error |-> m.error,
     deskpro_id |-> m.deskpro_id,
     created |-> IF m.created = NoTime THEN w.now ELSE m.created,
     updated |-> w.now,
     requirement_of |-> m.requirement_of]

Persist(w, m) ==
    [w EXCEPT !.proposals = (w.proposals \ ProposalsAt(w, Key(m))) \cup {Row(w, m)}]

\* the active connection records with exactly this identity key
ActiveAt(w, key) ==
    {i \in DOMAIN w.netixlans :
        Key(w.netixlans[i]) = key /\ w.netixlans[i].status = "ok"}

AnyAt(w, key) == {i \in DOMAIN w.netixlans : Key(w.netixlans[i]) = key}

MinOf(S) == CHOOSE i \in S : \A j \in S : i <= j

\* IXFMemberData.netixlan: the record of the key, an active one first; 0 if none
NetixlanOf(w, key) ==
    IF ActiveAt(w, key) # {} THEN MinOf(ActiveAt(w, key))
    ELSE IF AnyAt(w, key) # {} THEN MinOf(AnyAt(w, key))
    ELSE NoId

netixlan_exists(w, m) == ActiveAt(w, Key(m)) # {}

\* IXFMemberData._changes(netixlan): the business fields that differ
ChangesTo(m, r) ==
    (IF m.speed # r.speed THEN {"speed"} ELSE {}) \cup
    (IF m.is_rs_peer # r.is_rs_peer THEN {"is_rs_peer"} ELSE {}) \cup
    (IF m.operational # r.operational THEN {"operational"} ELSE {})

changes(w, m) ==
    IF netixlan_exists(w, m)
    THEN ChangesTo(m, w.netixlans[NetixlanOf(w, Key(m))])
    ELSE {}

\* IXFMemberData.net_present_at_ix: the network has an active record here
net_present_at_ix(w, m) ==
    \E i \in DOMAIN w.netixlans :
        w.netixlans[i].asn = m.asn /\ w.netixlans[i].status = "ok"

\* IXFMemberData.has_requirements: a deletion names this proposal as the one
\* it is a requirement of (stored, or set in memory during this run)
has_requirements(w, key) ==
    \/ \E p \in w.proposals : p.requirement_of = key
    \/ \E d \in w.imp.deletions : d.requirement_of = key

\* IXFMemberData.action
Action(w, m) ==
    IF ~m.has_data THEN "delete"
    ELSE IF ~netixlan_exists(w, m)
         THEN IF has_requirements(w, Key(m)) THEN "modify" ELSE "add"
    ELSE IF changes(w, m) # {} THEN "modify"
    ELSE "noop"

\* IXFMemberData.set_resolved: the stored proposal is retired
set_resolved(w, m, save) ==
    IF save THEN [w EXCEPT !.proposals = w.proposals \ ProposalsAt(w, Key(m))] ELSE w

\* whether set_resolved retired a proposal (its return value)
Resolves(w, m, save) == save /\ ProposalsAt(w, Key(m)) # {}

\* IXFMemberData.set_add / set_update / set_remove: the proposal is stored,
\* an existing one of the key updated in place
set_proposal(w, m, save, reason) ==
    IF save THEN Persist(w, [m EXCEPT !.reason = reason]) ELSE w

\* their return value: whether the proposal is news to its recipients
Notifies(w, m, reason) ==
    \/ ProposalsAt(w, Key(m)) = {}
    \/ \E p \in ProposalsAt(w, Key(m)) :
          p.reason # reason \/ p.speed # m.speed \/ p.operational # m.operational
              \/ p.is_rs_peer # m.is_rs_peer \/ p.has_data # m.has_data

\* IXFMemberData.set_conflict: the proposal is stored carrying the error
set_conflict(w, m, error, save) ==
    IF save THEN Persist(w, [m EXCEPT !.error = error]) ELSE w

ConflictNotifies(w, m, error) ==
    \/ ProposalsAt(w, Key(m)) = {}
    \/ \E p \in ProposalsAt(w, Key(m)) : p.error # error

\* IXFMemberData.set_requirement(deletion): the deletion becomes a
\* requirement of proposal m
set_requirement(w, m, deletion, save) ==
    IF deletion = {} THEN w
    ELSE Then([(CHOOSE d \in deletion : TRUE) EXCEPT !.requirement_of = Key(m)],
              LAMBDA d2 :
         Then([w EXCEPT !.imp.deletions = (w.imp.deletions \ deletion) \cup {d2}],
              LAMBDA w1 :
         IF save THEN Persist(w1, d2) ELSE w1))

----------------------------------------------------------------------------
(* IXFMemberData.apply (models.py), modelled from the specification *)

Holds4(r, v4) == v4 # None /\ r.ipaddr4 = v4
Holds6(r, v6) == v6 # None /\ r.ipaddr6 = v6

\* the record of the same network that already holds one of the addresses: an
\* add takes it over instead of creating a second record (IPv4 holder first)
AddTarget(w, m) ==
    LET own4 == {i \in DOMAIN w.netixlans :
                    w.netixlans[i].asn = m.asn /\ Holds4(w.netixlans[i], m.ipaddr4)}
        own6 == {i \in DOMAIN w.netixlans :
                    w.netixlans[i].asn = m.asn /\ Holds6(w.netixlans[i], m.ipaddr6)}
    IN  IF own4 # {} THEN MinOf(own4)
        ELSE IF own6 # {} THEN MinOf(own6)
        ELSE NoId

\* validation of an add: prefix containment, and uniqueness of each address
\* among the active records of the IXLAN
AddInvalid(w, m) ==
    \/ m.ipaddr4 # None /\ ~test_ipv4_address(m.ipaddr4)
    \/ m.ipaddr6 # None /\ ~test_ipv6_address(m.ipaddr6)
    \/ \E i \in DOMAIN w.netixlans :
          /\ i # AddTarget(w, m)
          /\ w.netixlans[i].status = "ok"
          /\ Holds4(w.netixlans[i], m.ipaddr4) \/ Holds6(w.netixlans[i], m.ipaddr6)

NewNetixlan(w, m, version) ==
    [asn |-> m.asn, ipaddr4 |-> m.ipaddr4, ipaddr6 |-> m.ipaddr6,
     speed |-> m.speed, is_rs_peer |-> m.is_rs_peer, operational |-> m.operational,
     status |-> "ok", version |-> version, updated |-> w.now]

\* the result of apply: the world after it, the action performed, the record
\* acted on (id, fields, last version before the write), or a ValidationError
ApplyResult(w, action, id, rec, before, raised) ==
    [w |-> w, action |-> action, netixlan |-> id, rec |-> rec,
     version_before |-> before, raised |-> raised]

ApplyAdd(w, m, action, save) ==
    Then(AddTarget(w, m), LAMBDA t :
    Then(IF t = NoId THEN NoId ELSE w.netixlans[t].version, LAMBDA before :
    Then(NewNetixlan(w, m, before + 1), LAMBDA rec :
    IF AddInvalid(w, m) THEN ApplyResult(w, action, NoId, rec, NoId, TRUE)
    ELSE IF ~save THEN ApplyResult(w, action, NoId, rec, NoId, FALSE)
    ELSE IF t = NoId
         THEN ApplyResult(set_resolved([w EXCEPT !.netixlans = Append(w.netixlans, rec)],
                                       m, save),
                          action, Len(w.netixlans) + 1, rec, before, FALSE)
    ELSE ApplyResult(set_resolved([w EXCEPT !.netixlans[t] = rec], m, save),
                     action, t, rec, before, FALSE))))

ApplyModify(w, m, action, save) ==
    Then(NetixlanOf(w, Key(m)), LAMBDA id :
    Then(w.netixlans[id], LAMBDA old :
    Then([old EXCEPT !.speed = m.speed, !.is_rs_peer = m.is_rs_peer,
                     !.operational = m.operational,
                     !.version = IF save THEN old.version + 1 ELSE old.version,
                     !.updated = IF save THEN w.now ELSE old.updated], LAMBDA rec :
    ApplyResult(set_resolved(IF save THEN [w EXCEPT !.netixlans[id] = rec] ELSE w,
                             m, save),
                action, id, rec, old.version, FALSE))))

ApplyDelete(w, m, action, save) ==
    Then(NetixlanOf(w, Key(m)), LAMBDA id :
    Then(w.netixlans[id], LAMBDA old :
    Then(IF save
         THEN [old EXCEPT !.status = "deleted", !.version = old.version + 1,
                          !.updated = w.now]
         ELSE old, LAMBDA rec :
    ApplyResult(set_resolved(IF save THEN [w EXCEPT !.netixlans[id] = rec] ELSE w,
                             m, save),
                action, id, rec, old.version, FALSE))))

apply(w, m, save) ==
    Then(Action(w, m), LAMBDA action :
    CASE action = "add" -> ApplyAdd(w, m, action, save)
      [] action = "modify" ->
            IF netixlan_exists(w, m) THEN ApplyModify(w, m, action, save)
            ELSE ApplyAdd(w, m, action, save)
      [] action = "delete" -> ApplyDelete(w, m, action, save)
      [] OTHER -> ApplyResult(set_resolved(w, m, save), action,
                              NetixlanOf(w, Key(m)), m, NoId, FALSE))

----------------------------------------------------------------------------
(* Importer: reset and the attempt log *)

reset_log(w) == [w EXCEPT !.imp.log = [data |-> <<>>, errors |-> <<>>]]

\* a reset that leaves the seen-set of the previous run in place
reset_keeps_seen(w, save, asn) ==
    reset_log([w EXCEPT !.imp =
        [cache_only |-> w.imp.cache_only,
         skip_import |-> w.imp.skip_import,
         ixf_ids |-> w.imp.ixf_ids,
         actions_taken |-> [add |-> <<>>, delete |-> <<>>, modify |-> <<>>, noop |-> <<>>],
         pending_save |-> <<>>,
         deletions |-> {},
         asns |-> <<>>,
         save |-> save,
         asn |-> asn,
         now |-> w.now,
         invalid_ip_errors |-> <<>>,
         notifications |-> <<>>,
         raised |-> None,
         log |-> [data |-> <<>>, errors |-> <<>>]],
        !.txlog = <<>>])

\* Importer.reset
reset(w, save, asn) ==
    reset_log([w EXCEPT !.imp =
        [cache_only |-> w.imp.cache_only,
         skip_import |-> w.imp.skip_import,
         ixf_ids |-> <<>>,
         actions_taken |-> [add |-> <<>>, delete |-> <<>>, modify |-> <<>>, noop |-> <<>>],
         pending_save |-> <<>>,
         deletions |-> {},
         asns |-> <<>>,
         save |-> save,
         asn |-> asn,
         now |-> w.now,
         invalid_ip_errors |-> <<>>,
         notifications |-> <<>>,
         raised |-> None,
         log |-> [data |-> <<>>, errors |-> <<>>]],
        !.txlog = <<>>])

save_log(w) == [w EXCEPT !.attempt = w.imp.log]

log_error(w, error, save) ==
    LET w1 == [w EXCEPT !.imp.log.errors = Append(w.imp.log.errors, error)]
    IN  IF save THEN save_log(w1) ELSE w1

\* log_peer with a netixlan (a record, or a proposal): one entry of the log
LogEntry(asn, action, reason, x) ==
    [asn |-> asn, action |-> action, reason |-> reason,
     ipaddr4 |-> x.ipaddr4, ipaddr6 |-> x.ipaddr6, speed |-> x.speed,
     is_rs_peer |-> x.is_rs_peer, operational |-> x.operational]

log_peer(w, asn, action, reason, x) ==
    [w EXCEPT !.imp.log.data = Append(w.imp.log.data, LogEntry(asn, action, reason, x))]

\* an exception leaves the method
Raise(w, exc) == [w EXCEPT !.imp.raised = exc]

\* log_peer without a netixlan: the entry, carrying the peer alone, is
\* appended, and the closing netixlan.ixf_log_entry = entry is an assignment
\* to an attribute of None
IgnoredPeer == [ipaddr4 |-> None, ipaddr6 |-> None, speed |-> 0,
                is_rs_peer |-> FALSE, operational |-> FALSE]

log_peer_none(w, asn, action, reason) ==
    Raise(log_peer(w, asn, action, reason, IgnoredPeer), "AttributeError")

log_apply(w, result, reason) ==
    LET w1 == [w EXCEPT !.imp.actions_taken[result.action] =
                  Append(w.imp.actions_taken[result.action],
                         [netixlan |-> result.netixlan,
                          version |-> result.version_before,
                          reason |-> reason])]
    IN  log_peer(w1, result.rec.asn, result.action, reason, result.rec)

\* "suggest-" + action
Suggest(action) ==
    CASE action = "add" -> "suggest-add"
      [] action = "modify" -> "suggest-modify"
      [] action = "delete" -> "suggest-delete"
      [] OTHER -> "suggest-noop"

log_ixf_member_data(w, m, reason) ==
    log_peer(w, Network(m.asn).asn, Suggest(Action(w, m)), reason, m)

queue_notification(w, m, typ, ac, ixn, net) ==
    [w EXCEPT !.imp.notifications = Append(w.imp.notifications,
        [ixf_member_data |-> Key(m), ac |-> ac, ix |-> ixn, net |-> net,
         typ |-> typ, action |-> Action(w, m)])]

\* one decision of the transaction, as the database sees them in order
Executed(w, phase, m) ==
    [w EXCEPT !.txlog = Append(w.txlog, [phase |-> phase, key |-> Key(m)])]

\* a step of the run that is over, in the same order
Step(w, phase) ==
    [w EXCEPT !.txlog = Append(w.txlog, [phase |-> phase, key |-> NoKey])]

----------------------------------------------------------------------------
(* Importer.parse *)

RECURSIVE SumSpeeds(_)
SumSpeeds(if_list) ==
    IF if_list = <<>> THEN 0 ELSE Head(if_list) + SumSpeeds(Tail(if_list))

parse_speed(if_list) == SumSpeeds(if_list)

\* a prefix filter that drops a row as soon as one address is outside
OutsidePrefixes_either(v4, v6) ==
    \/ v4 # None /\ ~test_ipv4_address(v4)
    \/ v6 # None /\ ~test_ipv6_address(v6)

\* the rows dropped because of the prefixes of the IXLAN
OutsidePrefixes(v4, v6) ==
    LET ipv4_valid_for_ixlan == test_ipv4_address(v4)
        ipv6_valid_for_ixlan == test_ipv6_address(v6)
    IN  \/ v4 # None /\ ~ipv4_valid_for_ixlan /\ v6 # None /\ ~ipv6_valid_for_ixlan
        \/ ~ipv4_valid_for_ixlan /\ v6 = None
        \/ ~ipv6_valid_for_ixlan /\ v4 = None

\* a row that adds both auxiliary keys to ixf_ids
RowIds_both(asn, v4, v6) ==
    <<IxfId(asn, v4, v6)>> \o
    (IF v4 # None /\ v6 # None
     THEN IF ~Network(asn).ipv6_support \/ ~Network(asn).ipv4_support
          THEN <<IxfId(asn, v4, None), IxfId(asn, None, v6)>>
          ELSE <<>>
     ELSE <<>>)

\* the keys one row adds to ixf_ids
RowIds(asn, v4, v6) ==
    <<IxfId(asn, v4, v6)>> \o
    (IF v4 # None /\ v6 # None
     THEN IF ~Network(asn).ipv6_support THEN <<IxfId(asn, v4, None)>>
          ELSE IF ~Network(asn).ipv4_support THEN <<IxfId(asn, None, v6)>>
          ELSE <<>>
     ELSE <<>>)

\* one entry of vlan_list
parse_vlan(w, lan, asn, connection, speed) ==
    LET v4 == lan.ipv4
        v6 == lan.ipv6
        conflict == \/ v4 # None /\ ~Network(asn).ipv4_support
                    \/ v6 # None /\ ~Network(asn).ipv6_support
        operational == connection.state # "inactive"
        m == instantiate(w, asn, Supported4(asn, v4), Supported6(asn, v6),
                         speed, operational, lan.routeserver, TRUE)
        w1 == IF conflict
              THEN queue_notification(
                       w, instantiate(w, asn, v4, v6, 0, TRUE, FALSE, TRUE),
                       "protocol-conflict", FALSE, TRUE, TRUE)
              ELSE w
        w2 == [w1 EXCEPT !.imp.ixf_ids = w1.imp.ixf_ids \o RowIds(asn, v4, v6)]
    IN  IF v4 = None /\ v6 = None
        THEN log_error(w, "Could not find ipv4 or 6 address in vlan_list entry", FALSE)
        ELSE IF v4 \in InvalidAddresses \/ v6 \in InvalidAddresses
             THEN log_error([w EXCEPT !.imp.invalid_ip_errors =
                                Append(w.imp.invalid_ip_errors, "ip address error")],
                            "Ip address error in vlan_list entry", FALSE)
        ELSE IF OutsidePrefixes(v4, v6) THEN w
        ELSE IF ProtocolsDisabled(asn, v4, v6)
             THEN log_error(w2, "NetworkProtocolsDisabled", FALSE)
        ELSE [w2 EXCEPT !.imp.pending_save =
                 Append(w2.imp.pending_save, [m EXCEPT !.error = m.previous_error])]

RECURSIVE parse_vlans(_, _, _, _, _)
parse_vlans(w, vlan_list, asn, connection, speed) ==
    IF vlan_list = <<>> THEN w
    ELSE parse_vlans(parse_vlan(w, Head(vlan_list), asn, connection, speed),
                     Tail(vlan_list), asn, connection, speed)

RECURSIVE parse_connections(_, _, _)
parse_connections(w, connection_list, asn) ==
    IF connection_list = <<>> \/ w.imp.raised # None THEN w
    ELSE LET connection == Head(connection_list)
             state == IF connection.state = Absent THEN "active"
                      ELSE lower(connection.state)
             w1 == IF connection.state = None THEN Raise(w, "AttributeError")
                   ELSE IF state \in allowed_states
                   THEN parse_vlans(w, connection.vlan_list, asn, connection,
                                    parse_speed(connection.if_list))
                   ELSE log_peer_none(w, asn, "ignore",
                                      Reason("Invalid connection state", {}, None))
         IN  parse_connections(w1, Tail(connection_list), asn)

\* a member filter that lets the members of every ASN through
OtherAsn_never(w, asn) == FALSE

\* parse_members: the member is not of the ASN the run was requested for
OtherAsn(w, asn) == w.imp.asn # NoId /\ asn # w.imp.asn

\* one member of member_list; bound is the value the local variable asn has
\* from the members before it, NoId while it is still unassigned; a member
\* without the key "asnum" has asnum = NoId, and member["asnum"] raises
parse_member(w, member, bound) ==
    LET asn == member.asnum
        w1 == IF \E i \in DOMAIN w.imp.asns : w.imp.asns[i] = asn THEN w
              ELSE [w EXCEPT !.imp.asns = Append(w.imp.asns, asn)]
    IN  IF member.member_type \notin allowed_member_types
        THEN IF bound = NoId THEN Raise(w, "UnboundLocalError")
             ELSE log_peer_none(w, bound, "ignore",
                                Reason("Invalid member type", {}, None))
        ELSE IF asn = NoId THEN Raise(w, "KeyError")
        ELSE IF OtherAsn(w, asn) THEN w
        ELSE IF ~NetworkExists(asn)
             THEN log_peer_none(w1, asn, "ignore",
                                Reason("Network does not exist in peeringdb", {}, None))
        ELSE IF Network(asn).status # "ok"
             THEN log_peer_none(w1, asn, "ignore", Reason("Network status", {}, None))
        ELSE parse_connections(w1, member.connection_list, asn)

\* the local variable asn after the member
BoundAfter(member, bound) ==
    IF member.member_type \in allowed_member_types /\ member.asnum # NoId
    THEN member.asnum ELSE bound

RECURSIVE parse_members_from(_, _, _)
parse_members_from(w, member_list, bound) ==
    IF member_list = <<>> \/ w.imp.raised # None THEN w
    ELSE parse_members_from(parse_member(w, Head(member_list), bound),
                            Tail(member_list),
                            BoundAfter(Head(member_list), bound))

parse_members(w, member_list) == parse_members_from(w, member_list, NoId)

\* transaction.atomic() left by an exception: the writes made inside it are
\* undone, what the importer holds in memory stays
Rollback(before, after) == [before EXCEPT !.imp = after.imp]

parse(w, data) ==
    Then(parse_members(w, data.member_list), LAMBDA parsed :
    IF parsed.imp.raised # None THEN Rollback(w, parsed) ELSE parsed)

----------------------------------------------------------------------------
(* Importer.process_deletions *)

\* a seen-set that holds no key
InIxfIds_never(w, key) == FALSE

InIxfIds(w, key) == \E i \in DOMAIN w.imp.ixf_ids : w.imp.ixf_ids[i] = key

\* netixlan_set_active without the filter of a single-ASN run
DeletionCandidates_all(w) ==
    SelectSeq([i \in DOMAIN w.netixlans |-> i],
              LAMBDA i : w.netixlans[i].status = "ok")

\* netixlan_set_active, filtered by the asn of a single-ASN run, in id order
DeletionCandidates(w) ==
    SelectSeq([i \in DOMAIN w.netixlans |-> i],
              LAMBDA i : /\ w.netixlans[i].status = "ok"
                         /\ w.imp.asn # NoId => w.netixlans[i].asn = w.imp.asn)

process_deletion(w, id) ==
    LET r == w.netixlans[id]
        consents == Network(r.asn).allow_ixp_update
    IN  IF InIxfIds(w, Key(r)) THEN w
        ELSE
        Then(instantiate(w, r.asn, r.ipaddr4, r.ipaddr6, 0, TRUE, FALSE, FALSE),
             LAMBDA m0 :
        Then(IF consents THEN m0
             ELSE [m0 EXCEPT !.reason = REASON_ENTRY_GONE_FROM_REMOTE], LAMBDA m :
        Then(Executed([w EXCEPT !.imp.deletions =
                          {d \in w.imp.deletions : Key(d) # Key(m)} \cup {m}],
                      "delete", m), LAMBDA w1 :
        IF consents
        THEN Then(apply(w1, m, w.imp.save), LAMBDA result :
                  log_apply(result.w, result, REASON_ENTRY_GONE_FROM_REMOTE))
        ELSE Then(set_proposal(w1, m, w.imp.save, REASON_ENTRY_GONE_FROM_REMOTE),
                  LAMBDA w2 :
             log_ixf_member_data(
                 IF Notifies(w1, m0, REASON_ENTRY_GONE_FROM_REMOTE)
                 THEN queue_notification(w2, m, "remove", TRUE, TRUE, TRUE)
                 ELSE w2,
                 m, REASON_ENTRY_GONE_FROM_REMOTE)))))

\* a deletion pass that deletes nothing
process_no_deletions(w) == w

RECURSIVE process_deletions_loop(_, _)
process_deletions_loop(w, ids) ==
    IF ids = <<>> THEN w
    ELSE process_deletions_loop(process_deletion(w, Head(ids)), Tail(ids))

process_deletions(w) == process_deletions_loop(w, DeletionCandidates(w))

----------------------------------------------------------------------------
(* Importer.process_saves *)

resolve(w, m) ==
    IF Resolves(w, m, w.imp.save)
    THEN queue_notification(set_resolved(w, m, w.imp.save), m, "resolved", TRUE, TRUE, TRUE)
    ELSE w

\* a handler that notifies of every conflict, new or not
on_validation_error_renotify(w, m) ==
    queue_notification(set_conflict(Executed(w, "invalid", m), m, "ValidationError",
                                    w.imp.save),
                       m, "conflict", TRUE, TRUE, TRUE)

\* except ValidationError: the proposal is stored as conflicted and notified
on_validation_error(w, m) ==
    LET w1 == set_conflict(Executed(w, "invalid", m), m, "ValidationError", w.imp.save)
    IN  IF ConflictNotifies(w, m, "ValidationError")
        THEN queue_notification(w1, m, "conflict", TRUE, TRUE, TRUE)
        ELSE w1

apply_update(w, m) ==
    Then(REASON_VALUES_CHANGED(changes(w, m), None), LAMBDA reason :
    IF Network(m.asn).allow_ixp_update
    THEN Then(apply(w, m, w.imp.save), LAMBDA result :
              IF result.raised THEN on_validation_error(w, m)
              ELSE log_apply(result.w, result, reason))
    ELSE Then(set_proposal(w, m, w.imp.save, reason), LAMBDA w1 :
         log_ixf_member_data(
             IF Notifies(w, m, reason)
             THEN queue_notification(w1, m, "modify", TRUE, TRUE, TRUE)
             ELSE w1,
             m, reason)))

DeletionAt(w, key) == {d \in w.imp.deletions : Key(d) = key}

\* self.log["data"].remove(deletion.ixf_log_entry)
RECURSIVE RemoveDeletionEntry(_, _)
RemoveDeletionEntry(data, key) ==
    IF data = <<>> THEN <<>>
    ELSE IF /\ Head(data).action \in {"delete", "suggest-delete"}
            /\ IxfId(Head(data).asn, Head(data).ipaddr4, Head(data).ipaddr6) = key
         THEN Tail(data)
         ELSE <<Head(data)>> \o RemoveDeletionEntry(Tail(data), key)

\* log_entry["action"].replace("add", "modify")
ReplaceAdd(action) ==
    CASE action = "add" -> "modify"
      [] action = "suggest-add" -> "suggest-modify"
      [] OTHER -> action

consolidate_delete_add(w, m) ==
    LET k4 == IxfId(m.asn, m.ipaddr4, None)
        k6 == IxfId(m.asn, None, m.ipaddr6)
        ip4_deletion == DeletionAt(w, k4)
        ip6_deletion == DeletionAt(w, k6)
        netixlan == IF ip4_deletion # {} THEN NetixlanOf(w, k4) ELSE NetixlanOf(w, k6)
        changed_fields == IF netixlan = NoId THEN {}
                          ELSE ChangesTo(m, w.netixlans[netixlan])
        ipaddr_info == IF ip4_deletion # {} /\ ip6_deletion # {}
                       THEN "IP addresses moved to same entry"
                       ELSE IF ip4_deletion # {} THEN "IPv6 not set"
                       ELSE "IPv4 not set"
    IN  IF m.ipaddr4 = None \/ m.ipaddr6 = None THEN w
        ELSE IF ip4_deletion = {} /\ ip6_deletion = {} THEN w
        ELSE
        Then(set_requirement(set_requirement(w, m, ip4_deletion, w.imp.save),
                             m, ip6_deletion, w.imp.save), LAMBDA w2 :
        IF ~has_requirements(w2, Key(m)) THEN w2
        ELSE
        Then(REASON_VALUES_CHANGED(changed_fields, ipaddr_info), LAMBDA reason :
        Then(IF ip4_deletion # {} THEN RemoveDeletionEntry(w2.imp.log.data, k4)
             ELSE w2.imp.log.data, LAMBDA data1 :
        Then(IF ip6_deletion # {} THEN RemoveDeletionEntry(data1, k6) ELSE data1,
             LAMBDA data2 :
        Then([w2 EXCEPT !.imp.log.data =
                 [data2 EXCEPT ![Len(data2)].action = ReplaceAdd(data2[Len(data2)].action),
                               ![Len(data2)].reason = reason]], LAMBDA w3 :
        IF w.imp.save THEN Persist(w3, [m EXCEPT !.reason = reason, !.error = None])
        ELSE w3)))))

\* an add that is applied whatever the network allows
apply_add_unconditional(w, m) ==
    Then(apply(w, m, w.imp.save), LAMBDA result :
    IF result.raised THEN on_validation_error(w, m)
    ELSE log_apply(result.w, result, REASON_NEW_ENTRY))

\* an add that is only ever suggested, whatever the network allows
apply_add_suggest_only(w, m) ==
    log_ixf_member_data(set_proposal(w, m, w.imp.save, REASON_NEW_ENTRY),
                        m, REASON_NEW_ENTRY)

apply_add(w, m) ==
    IF Network(m.asn).allow_ixp_update
    THEN Then(apply(w, m, w.imp.save), LAMBDA result :
         IF result.raised THEN on_validation_error(w, m)
         ELSE Then(log_apply(result.w, result, REASON_NEW_ENTRY), LAMBDA applied :
              IF ~w.imp.save THEN consolidate_delete_add(applied, m) ELSE applied))
    ELSE Then(consolidate_delete_add(
                  log_ixf_member_data(
                      set_proposal(w, m, w.imp.save, REASON_NEW_ENTRY),
                      m, REASON_NEW_ENTRY),
                  m), LAMBDA w3 :
         IF ~Notifies(w, m, REASON_NEW_ENTRY) THEN w3
         ELSE IF net_present_at_ix(w3, m)
              THEN queue_notification(w3, m, Action(w3, m), TRUE, TRUE, TRUE)
         ELSE queue_notification(w3, m, Action(w3, m), FALSE, FALSE, TRUE))

apply_add_or_update(w, m) ==
    Then(Executed(w, "save", m), LAMBDA w1 :
    IF netixlan_exists(w1, m)
    THEN IF changes(w1, m) = {} THEN resolve(w1, m) ELSE apply_update(w1, m)
    ELSE apply_add(w1, m))

RECURSIVE process_saves_loop(_, _)
process_saves_loop(w, pending) ==
    IF pending = <<>> THEN w
    ELSE process_saves_loop(apply_add_or_update(w, Head(pending)), Tail(pending))

process_saves(w) == process_saves_loop(w, w.imp.pending_save)

----------------------------------------------------------------------------
(* Importer.cleanup_ixf_member_data *)

\* a value-ordered enumeration of a set of proposals (a queryset's rows)
RECURSIVE SetToSeq(_)
SetToSeq(S) ==
    IF S = {} THEN <<>>
    ELSE LET x == CHOOSE x \in S : TRUE IN <<x>> \o SetToSeq(S \ {x})

\* a stored proposal read back from the table
Loaded(p) ==
    [asn |-> p.asn, ipaddr4 |-> p.ipaddr4, ipaddr6 |-> p.ipaddr6,
     speed |-> p.speed, operational |-> p.operational, is_rs_peer |-> p.is_rs_peer,
     has_data |-> p.has_data, ixlan |-> p.ixlan,
     pk |-> TRUE, reason |-> p.reason, error |-> p.error,
     previous_error |-> p.error, deskpro_id |-> p.deskpro_id, created |-> p.created,
     requirement_of |-> p.requirement_of]

\* a cleanup that resolves the absent add and modify proposals in
\* skip_import mode too
CleanupResolves_absent(w, m) ==
    LET action == Action(w, m)
        id == NetixlanOf(w, Key(m))
    IN  IF action = "delete"
        THEN id # NoId /\ w.netixlans[id].status = "deleted"
        ELSE IF action = "noop" THEN TRUE
        ELSE /\ ~InIxfIds(w, Key(m))
             /\ action \in {"add", "modify"}

\* whether cleanup resolves this stored proposal
CleanupResolves(w, m) ==
    LET action == Action(w, m)
        id == NetixlanOf(w, Key(m))
    IN  IF action = "delete"
        THEN id # NoId /\ w.netixlans[id].status = "deleted"
        ELSE IF action = "noop" THEN TRUE
        ELSE /\ ~w.imp.skip_import
             /\ ~InIxfIds(w, Key(m))
             /\ action \in {"add", "modify"}

\* the branch of cleanup that resolves the proposal
CleanupCase(w, m) ==
    CASE Action(w, m) = "delete" -> "cleanup-delete"
      [] Action(w, m) = "noop" -> "cleanup-noop"
      [] OTHER -> "cleanup-gone"

cleanup_one(w, p) ==
    IF p \in w.proposals /\ CleanupResolves(w, Loaded(p))
    THEN resolve(Executed(w, CleanupCase(w, Loaded(p)), Loaded(p)), Loaded(p))
    ELSE w

RECURSIVE cleanup_loop(_, _)
cleanup_loop(w, qset) ==
    IF qset = <<>> THEN w
    ELSE cleanup_loop(cleanup_one(w, Head(qset)), Tail(qset))

\* a cleanup that goes through the proposals of every ASN
cleanup_every_asn(w) ==
    IF ~w.imp.save THEN w
    ELSE cleanup_loop(w, SetToSeq({p \in w.proposals : p.ixlan = ThisIxlan}))

cleanup_ixf_member_data(w) ==
    IF ~w.imp.save THEN w
    ELSE cleanup_loop(w, SetToSeq({p \in w.proposals :
                                     /\ p.ixlan = ThisIxlan
                                     /\ w.imp.asn # NoId => p.asn = w.imp.asn}))

----------------------------------------------------------------------------
(* Tickets and emails *)

\* the deskpro client's create_ticket: a ticket without a handle gets a new one
NewDeskproId(w) == Len(w.tickets) + 1

\* what client.create_ticket does: it returns, or raises an error of the API
\* that carries the response as its data, or raises another exception
API_OK == "ok"
API_ERROR == "APIError"
OTHER_ERROR == "ConnectionError"
ApiOutcomes == {API_OK, API_ERROR, OTHER_ERROR}

\* Importer._ticket for each outcome of client.create_ticket: the row is
\* created first; an exception without the attribute data makes the handler
\* raise AttributeError before it saves the [FAILED] subject
create_ticket(w, deskpro_id, subject, outcome) ==
    LET old == {i \in DOMAIN w.tickets :
                  w.tickets[i].subject = subject /\ w.tickets[i].deskpro_id # NoId}
        inherited == IF deskpro_id = NoId /\ old # {}
                     THEN w.tickets[MinOf(old)].deskpro_id
                     ELSE deskpro_id
        row == [subject |-> subject,
                deskpro_id |-> IF outcome = API_OK /\ inherited = NoId
                               THEN NewDeskproId(w) ELSE inherited,
                failed |-> outcome = API_ERROR,
                published |-> IF outcome = API_OK THEN w.now ELSE NoTime]
    IN  IF outcome = OTHER_ERROR
        THEN Raise([w EXCEPT !.tickets = Append(w.tickets, row)], "AttributeError")
        ELSE [w EXCEPT !.tickets = Append(w.tickets, row)]

\* Importer._ticket: the world after it, with the ticket created last
ticket(w, deskpro_id, subject, api_ok) ==
    create_ticket(w, deskpro_id, subject, IF api_ok THEN API_OK ELSE API_ERROR)

LastTicket(w) == w.tickets[Len(w.tickets)]

\* the recipient's flag: IXF_NOTIFY_NET_ON_CONFLICT or IXF_NOTIFY_IX_ON_CONFLICT
NotifyEnabled(w, recipient) ==
    IF recipient = "net" THEN w.settings.notify_net_enabled
    ELSE w.settings.notify_ix_enabled

\* an _email that returns before logging when the recipient's flag is off
email_unlogged(w, subject, recipient) ==
    IF ~NotifyEnabled(w, recipient) THEN w
    ELSE [w EXCEPT !.emails = Append(w.emails,
            [subject |-> subject, recipient |-> recipient,
             delivered |-> TRUE, sent |-> w.now])]

\* Importer._email: one IXFImportEmail row; if the recipient's flag is on the
\* mail is handed to mail.send or debug_mail (delivered) and the row gets its
\* sent timestamp
email(w, subject, recipient) ==
    [w EXCEPT !.emails = Append(w.emails,
        [subject |-> subject, recipient |-> recipient,
         delivered |-> NotifyEnabled(w, recipient),
         sent |-> IF NotifyEnabled(w, recipient) THEN w.now ELSE NoTime])]

\* IXFMemberData.requirements and primary_requirement: the stored deletions
\* that name this proposal
requirements(w, m) == {p \in w.proposals : p.requirement_of = Key(m)}

primary_requirement(w, m) == CHOOSE p \in requirements(w, m) : TRUE

Subject(w, m, typ) ==
    IF typ = "add" /\ requirements(w, m) # {}
    THEN <<Key(primary_requirement(w, m)), "IX-F Conflict Resolution">>
    ELSE <<Key(m), "IX-F Conflict Resolution">>

\* a ticket_proposal that does not look at IXF_TICKET_ON_CONFLICT
ticket_proposal_unguarded(w, m, typ, ac, ixn, net, api_ok) ==
    LET subject == Subject(w, m, typ)
        w1 == ticket(w, m.deskpro_id, subject, api_ok)
        m2 == [m EXCEPT !.deskpro_id = LastTicket(w1).deskpro_id]
        w2 == IF ac THEN IF m.pk THEN Persist(w1, m2) ELSE w1 ELSE w
        w3 == IF ixn THEN email(w2, subject, "ix") ELSE w2
    IN  IF net THEN email(w3, subject, "net") ELSE w3

\* Importer.ticket_proposal
ticket_proposal(w, m, typ, ac, ixn, net, api_ok) ==
    LET subject == Subject(w, m, typ)
        w1 == ticket(w, m.deskpro_id, subject, api_ok)
        m2 == [m EXCEPT !.deskpro_id = LastTicket(w1).deskpro_id]
        w2 == IF ac /\ w.settings.tickets_enabled
              THEN IF m.pk THEN Persist(w1, m2) ELSE w1
              ELSE w
        w3 == IF ixn THEN email(w2, subject, "ix") ELSE w2
    IN  IF net THEN email(w3, subject, "net") ELSE w3

\* consolidate_proposals: the queued notifications that are consolidated,
\* those of type resolved and those of a requirement of another proposal left
\* out
IsRequirement(w, key) ==
    \E d \in w.imp.deletions : Key(d) = key /\ d.requirement_of # NoKey

Consolidated(w) ==
    SelectSeq(w.imp.notifications,
              LAMBDA n : n.typ # "resolved" /\ ~IsRequirement(w, n.ixf_member_data))

\* the exchange of the IXLAN as a key of the consolidation
ThisIx == "ix"

\* consolidate_proposals: the message is pushed on recipient's bundle, under
\* the other entity; a protocol conflict fills its slot and counts too
Push_counts_conflicts(bundles, recipient, other, action, message) ==
    LET b0 == IF recipient \in DOMAIN bundles THEN bundles[recipient]
              ELSE [proposals |-> <<>>, count |-> 0]
        b1 == IF other \in DOMAIN b0.proposals THEN b0
              ELSE [b0 EXCEPT !.proposals =
                       (other :> [add |-> <<>>, modify |-> <<>>, delete |-> <<>>,
                                  protocol_conflict |-> None]) @@ b0.proposals]
        b2 == IF action = "protocol_conflict"
              THEN [b1 EXCEPT !.proposals[other].protocol_conflict = message,
                              !.count = @ + 1]
              ELSE [b1 EXCEPT !.proposals[other][action] = Append(@, message),
                              !.count = @ + 1]
    IN  (recipient :> b2) @@ bundles

\* consolidate_proposals: the bundle of the recipient and, in it, the slots of
\* the other entity are created when they first come up; the message is
\* appended to the list of its action and counted, or fills the
\* protocol_conflict slot without being counted
Push(bundles, recipient, other, action, message) ==
    LET b0 == IF recipient \in DOMAIN bundles THEN bundles[recipient]
              ELSE [proposals |-> <<>>, count |-> 0]
        b1 == IF other \in DOMAIN b0.proposals THEN b0
              ELSE [b0 EXCEPT !.proposals =
                       (other :> [add |-> <<>>, modify |-> <<>>, delete |-> <<>>,
                                  protocol_conflict |-> None]) @@ b0.proposals]
        b2 == IF action = "protocol_conflict"
              THEN [b1 EXCEPT !.proposals[other].protocol_conflict = message]
              ELSE [b1 EXCEPT !.proposals[other][action] = Append(@, message),
                              !.count = @ + 1]
    IN  (recipient :> b2) @@ bundles

\* the bundle and its slots exist after the notification, pushed or not
Touch(bundles, recipient, other) ==
    LET b0 == IF recipient \in DOMAIN bundles THEN bundles[recipient]
              ELSE [proposals |-> <<>>, count |-> 0]
        b1 == IF other \in DOMAIN b0.proposals THEN b0
              ELSE [b0 EXCEPT !.proposals =
                       (other :> [add |-> <<>>, modify |-> <<>>, delete |-> <<>>,
                                  protocol_conflict |-> None]) @@ b0.proposals]
    IN  (recipient :> b1) @@ bundles

\* Importer.consolidate_proposals without its calls of ticket_proposal:
\* consolidated["net"][asn] and consolidated["ix"][ix]
RECURSIVE consolidate_from(_, _, _)
consolidate_from(w, ns, acc) ==
    IF ns = <<>> THEN acc
    ELSE LET n == Head(ns)
             asn == n.ixf_member_data[1]
             action == IF n.typ = "protocol-conflict" THEN "protocol_conflict"
                       ELSE n.action
             net0 == Touch(acc.net, asn, ThisIx)
             ix0 == Touch(acc.ix, ThisIx, asn)
         IN  consolidate_from(w, Tail(ns),
                 IF n.typ = "resolved" \/ IsRequirement(w, n.ixf_member_data)
                 THEN acc
                 ELSE [net |-> IF n.net
                               THEN Push(net0, asn, ThisIx, action,
                                         <<n.ixf_member_data, n.typ, "net">>)
                               ELSE net0,
                       ix |-> IF n.ix
                              THEN Push(ix0, ThisIx, asn, action,
                                        <<n.ixf_member_data, n.typ, "ix">>)
                              ELSE ix0])

consolidate_proposals(w) ==
    consolidate_from(w, w.imp.notifications, [net |-> <<>>, ix |-> <<>>])

\* consolidated["net"][asn]["count"] and consolidated["ix"][ix]["count"]
NetCount(w, asn) ==
    IF asn \in DOMAIN consolidate_proposals(w).net
    THEN consolidate_proposals(w).net[asn].count ELSE 0

IxCount(w) ==
    IF ThisIx \in DOMAIN consolidate_proposals(w).ix
    THEN consolidate_proposals(w).ix[ThisIx].count ELSE 0

MismatchSubject(asn) == <<IxfId(asn, None, None), "IX-F Importer data mismatch">>

\* the networks of the consolidated notifications, in the order they come up
RECURSIVE NetsOf(_, _)
NetsOf(ns, seen) ==
    IF ns = <<>> THEN <<>>
    ELSE IF Head(ns).ixf_member_data[1] \in seen THEN NetsOf(Tail(ns), seen)
    ELSE <<Head(ns).ixf_member_data[1]>>
         \o NetsOf(Tail(ns), seen \cup {Head(ns).ixf_member_data[1]})

RECURSIVE notify_nets(_, _, _)
notify_nets(w, counted, asns) ==
    IF asns = <<>> THEN w
    ELSE notify_nets(IF net_contacts(Head(asns)) /\ NetCount(counted, Head(asns)) > 0
                     THEN email(w, MismatchSubject(Head(asns)), "net")
                     ELSE w,
                     counted, Tail(asns))

\* notification["ixf_member_data"]: the proposal as stored, or the unsaved one
NotificationMember(w, n) ==
    IF ProposalsAt(w, n.ixf_member_data) # {}
    THEN Loaded(CHOOSE p \in ProposalsAt(w, n.ixf_member_data) : TRUE)
    ELSE instantiate(w, n.ixf_member_data[1], n.ixf_member_data[2],
                     n.ixf_member_data[3], 0, TRUE, FALSE, TRUE)

\* a consolidation that leaves the proposals without a contact alone
consolidate_tickets_skipped(w, ns, api_ok) == w

\* consolidate_proposals: a proposal with a side that has no contact is
\* handed to ticket_proposal
RECURSIVE consolidate_tickets(_, _, _)
consolidate_tickets(w, ns, api_ok) ==
    IF ns = <<>> THEN w
    ELSE consolidate_tickets(
             IF ~ix_contacts \/ ~net_contacts(Head(ns).ixf_member_data[1])
             THEN ticket_proposal(w, NotificationMember(w, Head(ns)), Head(ns).typ,
                                  Head(ns).ac, Head(ns).ix, Head(ns).net, api_ok)
             ELSE w,
             Tail(ns), api_ok)

\* Importer.notify_proposals: one email to the exchange and one to each
\* network that has a counted notification, if they have a contact
notify_proposals(w, api_ok) ==
    IF ~w.imp.save THEN w
    ELSE Then(consolidate_tickets(w, Consolidated(w), api_ok), LAMBDA w0 :
         Then(IF ix_contacts /\ IxCount(w) > 0
              THEN email(w0, MismatchSubject(NoId), "ix") ELSE w0, LAMBDA w1 :
         Then(notify_nets(w1, w, NetsOf(Consolidated(w), {})), LAMBDA w2 :
         IF w2.emails # w.emails \/ w2.tickets # w.tickets
         THEN Step(w2, "notify") ELSE w2)))

\* the stored proposals without a ticket, whatever their age
AgedProposals_any_age(w) ==
    {p \in w.proposals : p.deskpro_id = NoId /\ p.requirement_of = NoKey}

\* the stored proposals old enough to be ticketed, of every IXLAN
AgedProposals(w) ==
    {p \in w.proposals :
        /\ p.deskpro_id = NoId
        /\ p.requirement_of = NoKey
        /\ IXF_IMPORTER_DAYS_UNTIL_TICKET > 0 =>
              p.created <= w.now - IXF_IMPORTER_DAYS_UNTIL_TICKET}

RECURSIVE ticket_aged_loop(_, _, _)
ticket_aged_loop(w, qset, api_ok) ==
    IF qset = <<>> THEN w
    ELSE LET m == Loaded(Head(qset))
             typ == IF Action(w, m) = "delete" THEN "remove" ELSE Action(w, m)
         IN  ticket_aged_loop(ticket_proposal(w, m, typ, TRUE, TRUE, TRUE, api_ok),
                              Tail(qset), api_ok)

\* an aging step that dispatches the queued notifications first
ticket_aged_after_notify(w, api_ok) ==
    IF ~w.imp.save THEN w
    ELSE Then(notify_proposals(w, api_ok), LAMBDA notified :
              ticket_aged_loop(notified, SetToSeq(AgedProposals(notified)), api_ok))

ticket_aged_proposals(w, api_ok) ==
    IF ~w.imp.save THEN w
    ELSE ticket_aged_loop(w, SetToSeq(AgedProposals(w)), api_ok)

\* the subject of the feed-error notification
ErrorSubject == <<NoKey, "Could not process IX-F Data">>

\* a notify_error that does not look at the time of the last notification
notify_error_unthrottled(w, error, api_ok) ==
    IF ~w.imp.save THEN w
    ELSE email(ticket([w EXCEPT !.ixlan.ixf_ixp_import_error_notified = w.now,
                                !.ixlan.ixf_ixp_import_error = error],
                      NoId, <<NoKey, "Could not process IX-F Data">>, api_ok),
               <<NoKey, "Could not process IX-F Data">>, "ix")

\* Importer.notify_error
notify_error(w, error, api_ok) ==
    LET notified == w.ixlan.ixf_ixp_import_error_notified
        subject == <<NoKey, "Could not process IX-F Data">>
        w1 == [w EXCEPT !.ixlan.ixf_ixp_import_error_notified = w.now,
                        !.ixlan.ixf_ixp_import_error = error]
    IN  IF ~w.imp.save THEN w
        ELSE IF /\ notified # NoTime
                /\ (w.now - notified) * HoursPerDay < IXF_PARSE_ERROR_NOTIFICATION_PERIOD
             THEN w
        ELSE email(ticket(w1, NoId, subject, api_ok), subject, "ix")

----------------------------------------------------------------------------
(* Importer.archive and Importer.update_ix *)

\* an archive that takes no entries
archive_entries_none(w, action, infos) == <<>>

\* the entries of one action, in the order the actions were taken
RECURSIVE archive_entries(_, _, _)
archive_entries(w, action, infos) ==
    IF infos = <<>> THEN <<>>
    ELSE LET info == Head(infos)
             current == IF info.netixlan = NoId THEN NoId
                        ELSE w.netixlans[info.netixlan].version
             version_after == IF info.version # NoId
                              THEN IF current > info.version THEN info.version + 1 ELSE NoId
                              ELSE current
             entry == [netixlan |-> info.netixlan, version_before |-> info.version,
                       action |-> action, reason |-> info.reason,
                       version_after |-> version_after]
         IN  (IF version_after = NoId THEN <<>> ELSE <<entry>>)
             \o archive_entries(w, action, Tail(infos))

\* an archive that is written in a preview run as well
archive_log_always(w) ==
    [w EXCEPT !.archive = Append(w.archive,
        [created |-> w.now,
         entries |-> archive_entries(w, "delete", w.imp.actions_taken.delete)
                     \o archive_entries(w, "modify", w.imp.actions_taken.modify)
                     \o archive_entries(w, "add", w.imp.actions_taken.add)])]

archive_log(w) ==
    IF ~w.imp.save THEN w
    ELSE [w EXCEPT !.archive = Append(w.archive,
            [created |-> w.now,
             entries |-> archive_entries(w, "delete", w.imp.actions_taken.delete)
                         \o archive_entries(w, "modify", w.imp.actions_taken.modify)
                         \o archive_entries(w, "add", w.imp.actions_taken.add)])]

update_ix(w) ==
    LET ixf_member_data_changed == \E p \in w.proposals : p.updated >= w.imp.now
        netixlan_data_changed ==
            \E i \in DOMAIN w.netixlans : w.netixlans[i].updated >= w.imp.now
        ixf_net_count == Len(w.imp.pending_save)
    IN  [w EXCEPT !.ix.ixf_last_import =
                      IF ixf_member_data_changed \/ netixlan_data_changed
                      THEN w.imp.now ELSE w.ix.ixf_last_import,
                  !.ix.ixf_net_count = ixf_net_count]

----------------------------------------------------------------------------
(* Importer.update *)

Returns(w, value) == [w EXCEPT !.ret = value]

\* a transaction that saves before it deletes
transaction_saves_first(w) == process_deletions(process_saves(w))

\* with transaction.atomic(): deletions, then saves
transaction(w) == process_saves(process_deletions(w))

\* a bail-out that logs the error of the feed and goes on to the transaction
on_pdb_error_ignored(w, error, save, api_ok) ==
    Returns(Step(transaction(log_error(notify_error(w, error, api_ok), error, save)),
                 "commit"), FALSE)

\* if data.get("pdb_error"): the exchange is notified, the error is logged and
\* update returns False
on_pdb_error(w, error, save, api_ok) ==
    Returns(log_error(notify_error(w, error, api_ok), error, save), FALSE)

\* a handler that swallows the KeyError and goes on to the transaction
on_key_error_ignored(w, save) ==
    Returns(Step(transaction(Raise(w, None)), "commit"), TRUE)

\* except KeyError: the error is logged and update returns False
on_key_error(w, save) ==
    Returns(log_error(Raise(w, None), ERR_KEY_ERROR, save), FALSE)

\* the part of update after the data was obtained
\* the apply phase without a fault, or with an exception that nothing handles
\* (a database error) raised when the save at this position is due
NoFault == 0

process_saves_upto(w, fault) ==
    Raise(process_saves_loop(w, SubSeq(w.imp.pending_save, 1,
                                       IF fault - 1 < Len(w.imp.pending_save)
                                       THEN fault - 1 ELSE Len(w.imp.pending_save))),
          "DatabaseError")

\* a transaction that keeps what was written before the exception
atomic_no_rollback(before, after) == after

\* with transaction.atomic(): the writes of the block are undone when an
\* exception leaves it; the Importer object keeps what it was given
atomic(before, after) ==
    IF after.imp.raised # None THEN Rollback(before, after) ELSE after

transaction_upto(w, fault) ==
    IF fault = NoFault THEN transaction(w)
    ELSE atomic(w, process_saves_upto(process_deletions(w), fault))

update_from(w, data, save, api_ok, fault) ==
    IF data.pdb_error # None
    THEN on_pdb_error(w, data.pdb_error, save, api_ok)
    ELSE
    Then(IF w.ixlan.ixf_ixp_import_error # None
         THEN [w EXCEPT !.ixlan.ixf_ixp_import_error = None]
         ELSE w, LAMBDA cleared :
    IF ActivePrefix4 \cup ActivePrefix6 = {}
    THEN Returns(log_error(cleared, ERR_NO_PREFIXES, save), FALSE)
    ELSE IF w.imp.skip_import
         THEN Returns(cleanup_ixf_member_data(cleared), TRUE)
    ELSE
    Then(parse(cleared, data), LAMBDA parsed :
    IF parsed.imp.raised = "KeyError"
    THEN on_key_error(parsed, save)
    ELSE IF parsed.imp.raised # None THEN Returns(parsed, FALSE)
    ELSE
    Then(transaction_upto(parsed, fault), LAMBDA applied :
    IF applied.imp.raised # None THEN Returns(applied, FALSE)
    ELSE
    Then(Step(archive_log(Step(ticket_aged_proposals(
             cleanup_ixf_member_data(Step(applied, "commit")), api_ok),
             "aging")), "archive"),
         LAMBDA archived :
    Then(IF archived.imp.invalid_ip_errors # <<>>
         THEN notify_error(archived, "invalid ip", api_ok)
         ELSE archived, LAMBDA done :
    Returns(IF save THEN save_log(update_ix(done)) ELSE done, TRUE))))))

update_with(w, data, save, api_ok) == update_from(w, data, save, api_ok, NoFault)

\* update(ixlan, save, data, asn): call.mode is "data" (data passed by the
\* caller), "fetch" (call.remote is what the URL answers) or "cached"
update(w, save, call, asn, api_ok) ==
    Then(reset([w EXCEPT !.imp.cache_only = (call.mode = "cached")], save, asn),
         LAMBDA w0 :
    update_with(IF call.mode = "fetch" THEN fetch(w0, call.remote) ELSE w0,
                CASE call.mode = "data" -> call.doc
                  [] call.mode = "cached" -> fetch_cached(w0)
                  [] OTHER -> FetchData(call.remote),
                save, api_ok))

----------------------------------------------------------------------------
(* The state machine *)

\* a connection record as the database holds it before the first run
Netixlan(asn, v4, v6, speed) ==
    [asn |-> asn, ipaddr4 |-> v4, ipaddr6 |-> v6, speed |-> speed,
     is_rs_peer |-> FALSE, operational |-> TRUE, status |-> "ok",
     version |-> 1, updated |-> NoTime]

\* the connection records the IXLAN may start with
InitialNetixlans ==
    { <<>>,
      <<Netixlan(1, "a4", None, 1)>>,
      <<Netixlan(2, "b4", None, 1)>>,
      <<Netixlan(1, "a4", "a6", 1), Netixlan(2, "b4", "b6", 1)>> }

InitialSettings ==
    {[tickets_enabled |-> t, notify_ix_enabled |-> FALSE, notify_net_enabled |-> FALSE] :
        t \in BOOLEAN}

\* Importer.__init__
NewImporter ==
    [cache_only |-> FALSE, skip_import |-> FALSE, ixf_ids |-> <<>>,
     actions_taken |-> [add |-> <<>>, delete |-> <<>>, modify |-> <<>>, noop |-> <<>>],
     pending_save |-> <<>>, deletions |-> {}, asns |-> <<>>, save |-> FALSE,
     asn |-> NoId, now |-> 0, invalid_ip_errors |-> <<>>, notifications |-> <<>>,
     raised |-> None, log |-> [data |-> <<>>, errors |-> <<>>]]

\* the ways update is called
Calls ==
    {[mode |-> "data", doc |-> d, remote |-> [ok |-> FALSE, doc |-> NoCache]] :
        d \in DataDocs}
    \cup {[mode |-> "fetch", doc |-> NoCache, remote |-> r] : r \in Remotes}
    \cup {[mode |-> "cached", doc |-> NoCache, remote |-> [ok |-> FALSE, doc |-> NoCache]]}

AsnArgs == {NoId, 2}

NoCall == [mode |-> "none", doc |-> NoCache, remote |-> [ok |-> FALSE, doc |-> NoCache]]

\* the state as one record, and back
World ==
    [netixlans |-> netixlans, proposals |-> proposals, ixlan |-> ixlan, ix |-> ix,
     cache |-> cache, attempt |-> attempt, archive |-> archive, tickets |-> tickets,
     emails |-> emails, imp |-> imp, ret |-> ret, now |-> now, settings |-> settings,
     txlog |-> txlog]

Becomes(w) ==
    /\ netixlans' = w.netixlans
    /\ proposals' = w.proposals
    /\ ixlan' = w.ixlan
    /\ ix' = w.ix
    /\ cache' = w.cache
    /\ attempt' = w.attempt
    /\ archive' = w.archive
    /\ tickets' = w.tickets
    /\ emails' = w.emails
    /\ imp' = w.imp
    /\ ret' = w.ret
    /\ txlog' = w.txlog

Init ==
    /\ netixlans \in InitialNetixlans
    /\ proposals = {}
    /\ ixlan = [ixf_ixp_import_error |-> None, ixf_ixp_import_error_notified |-> NoTime]
    /\ ix = [ixf_last_import |-> NoTime, ixf_net_count |-> 0]
    /\ cache = NoCache
    /\ attempt = [data |-> <<>>, errors |-> <<>>]
    /\ archive = <<>>
    /\ tickets = <<>>
    /\ emails = <<>>
    /\ imp = NewImporter
    /\ ret = TRUE
    /\ now = 0
    /\ settings \in InitialSettings
    /\ runs = 0
    /\ txlog = <<>>
    /\ hist = [call |-> NoCall, asn |-> NoId, api_ok |-> TRUE, again |-> FALSE,
               before_save |-> FALSE, before_ret |-> FALSE, dispatches |-> 0,
               other_qset |-> {}, other_runs |-> 0,
               post_mortem |-> <<>>, post_mortem_args |-> <<NoId, <<>>>>]

\* one call of Importer.update on the IXLAN
Update(save, call, asn, api_ok) ==
    /\ runs < MaxRuns
    /\ Then(update(World, save, call, asn, api_ok), Becomes)
    /\ runs' = runs + 1
    /\ hist' = [call |-> call, asn |-> asn, api_ok |-> api_ok,
                again |-> hist.call = call /\ hist.asn = asn,
                before_save |-> imp.save, before_ret |-> ret, dispatches |-> 0,
                other_qset |-> hist.other_qset, other_runs |-> hist.other_runs,
                post_mortem |-> hist.post_mortem,
                post_mortem_args |-> hist.post_mortem_args]
    /\ UNCHANGED <<now, settings>>

\* a day passes between two runs
Tick ==
    /\ now < MaxTime
    /\ now' = now + 1
    /\ UNCHANGED <<netixlans, proposals, ixlan, ix, cache, attempt, archive, tickets,
                   emails, imp, ret, settings, runs, txlog, hist>>

Next ==
    \/ \E save \in BOOLEAN, call \in Calls, asn \in AsnArgs :
          \E api_ok \in (IF save THEN BOOLEAN ELSE {TRUE}) :
              Update(save, call, asn, api_ok)
    \/ Tick

Spec == Init /\ [][Next]_vars

\* the same importer on an IXLAN that also has records of the networks without
\* IPv6 or without IPv4, fed the documents of RowDocs as data; its caller may call
\* notify_proposals once update is over
RowNetixlans ==
    { <<>>,
      <<Netixlan(1, "a4", None, 1)>>,
      <<Netixlan(2, "b4", None, 1)>>,
      <<Netixlan(3, "b4", None, 1), Netixlan(3, None, "b6", 1)>>,
      <<Netixlan(6, "a4", None, 1), Netixlan(6, None, "a6", 1)>>,
      <<Netixlan(7, "b4", "b6", 2)>> }

RowCalls ==
    {[mode |-> "data", doc |-> d, remote |-> [ok |-> FALSE, doc |-> NoCache]] :
        d \in RowDocs}
    \cup {[mode |-> "fetch", doc |-> NoCache,
           remote |-> [ok |-> FALSE, doc |-> ErrorDoc(ERR_TRANSPORT)]]}

InitRows ==
    /\ netixlans \in RowNetixlans
    /\ proposals = {}
    /\ ixlan = [ixf_ixp_import_error |-> None, ixf_ixp_import_error_notified |-> NoTime]
    /\ ix = [ixf_last_import |-> NoTime, ixf_net_count |-> 0]
    /\ cache = NoCache
    /\ attempt = [data |-> <<>>, errors |-> <<>>]
    /\ archive = <<>>
    /\ tickets = <<>>
    /\ emails = <<>>
    /\ imp = NewImporter
    /\ ret = TRUE
    /\ now = 0
    /\ settings \in InitialSettings
    /\ runs = 0
    /\ txlog = <<>>
    /\ hist = [call |-> NoCall, asn |-> NoId, api_ok |-> TRUE, again |-> FALSE,
               before_save |-> FALSE, before_ret |-> FALSE, dispatches |-> 0,
               other_qset |-> {}, other_runs |-> 0,
               post_mortem |-> <<>>, post_mortem_args |-> <<NoId, <<>>>>]

\* the caller calls Importer.notify_proposals after a run
NotifyProposals(api_ok) ==
    /\ runs > 0
    /\ hist.dispatches < MaxDispatches
    /\ Then(notify_proposals(World, api_ok), Becomes)
    /\ hist' = [hist EXCEPT !.dispatches = hist.dispatches + 1]
    /\ UNCHANGED <<now, settings, runs>>

NextRows ==
    \/ \E save \in BOOLEAN, call \in RowCalls :
          \E api_ok \in (IF save THEN BOOLEAN ELSE {TRUE}) :
              Update(save, call, NoId, api_ok)
    \/ \E api_ok \in BOOLEAN : NotifyProposals(api_ok)
    \/ Tick

SpecRows == InitRows /\ [][NextRows]_vars

\* ---------------------------------------------------------------------
\* The importer with the notification flags set either way

MailSettings ==
    {[tickets_enabled |-> TRUE, notify_ix_enabled |-> i, notify_net_enabled |-> n] :
        i \in BOOLEAN, n \in BOOLEAN}

MailDocs ==
    { Doc(<<Member(7, <<Conn("active", <<1>>, <<Vlan("b4", "b6")>>)>>)>>),
      Doc(<<Member(2, <<Conn("active", <<1>>, <<Vlan("b4", "b6")>>)>>)>>) }

MailCalls ==
    {[mode |-> "data", doc |-> d, remote |-> [ok |-> FALSE, doc |-> NoCache]] :
        d \in MailDocs}
    \cup {[mode |-> "fetch", doc |-> NoCache,
           remote |-> [ok |-> FALSE, doc |-> ErrorDoc(ERR_TRANSPORT)]]}

InitMail ==
    /\ netixlans \in {<<>>, <<Netixlan(2, "b4", None, 1)>>, <<Netixlan(7, "b4", "b6", 2)>>}
    /\ proposals = {}
    /\ ixlan = [ixf_ixp_import_error |-> None, ixf_ixp_import_error_notified |-> NoTime]
    /\ ix = [ixf_last_import |-> NoTime, ixf_net_count |-> 0]
    /\ cache = NoCache
    /\ attempt = [data |-> <<>>, errors |-> <<>>]
    /\ archive = <<>>
    /\ tickets = <<>>
    /\ emails = <<>>
    /\ imp = NewImporter
    /\ ret = TRUE
    /\ now = 0
    /\ settings \in MailSettings
    /\ runs = 0
    /\ txlog = <<>>
    /\ hist = [call |-> NoCall, asn |-> NoId, api_ok |-> TRUE, again |-> FALSE,
               before_save |-> FALSE, before_ret |-> FALSE, dispatches |-> 0,
               other_qset |-> {}, other_runs |-> 0,
               post_mortem |-> <<>>, post_mortem_args |-> <<NoId, <<>>>>]

NextMail ==
    \/ \E call \in MailCalls, api_ok \in BOOLEAN : Update(TRUE, call, NoId, api_ok)
    \/ \E api_ok \in BOOLEAN : NotifyProposals(api_ok)
    \/ Tick

SpecMail == InitMail /\ [][NextMail]_vars

\* ---------------------------------------------------------------------
\* The importer on feeds of one VLAN row, with every kind of address

VlanAddresses4 == {None, "a4", "x4", "bad4"}
VlanAddresses6 == {None, "a6", "x6", "bad6"}

VlanDocs ==
    {Doc(<<Member(asn, <<Conn("active", <<1>>, <<Vlan(v4, v6)>>)>>)>>) :
        asn \in {1, 2}, v4 \in VlanAddresses4, v6 \in VlanAddresses6}

VlanCalls ==
    {[mode |-> "data", doc |-> d, remote |-> [ok |-> FALSE, doc |-> NoCache]] :
        d \in VlanDocs}

InitVlans ==
    /\ netixlans \in {<<>>, <<Netixlan(1, "a4", "a6", 1)>>}
    /\ proposals = {}
    /\ ixlan = [ixf_ixp_import_error |-> None, ixf_ixp_import_error_notified |-> NoTime]
    /\ ix = [ixf_last_import |-> NoTime, ixf_net_count |-> 0]
    /\ cache = NoCache
    /\ attempt = [data |-> <<>>, errors |-> <<>>]
    /\ archive = <<>>
    /\ tickets = <<>>
    /\ emails = <<>>
    /\ imp = NewImporter
    /\ ret = TRUE
    /\ now = 0
    /\ settings \in InitialSettings
    /\ runs = 0
    /\ txlog = <<>>
    /\ hist = [call |-> NoCall, asn |-> NoId, api_ok |-> TRUE, again |-> FALSE,
               before_save |-> FALSE, before_ret |-> FALSE, dispatches |-> 0,
               other_qset |-> {}, other_runs |-> 0,
               post_mortem |-> <<>>, post_mortem_args |-> <<NoId, <<>>>>]

NextVlans ==
    \/ \E save \in BOOLEAN, call \in VlanCalls : Update(save, call, NoId, TRUE)
    \/ Tick

SpecVlans == InitVlans /\ [][NextVlans]_vars

\* ---------------------------------------------------------------------
\* The importer on feeds of one connection, with every kind of state

ConnectionStates ==
    {Absent, "", None, "active", "inactive", "connected", "operational", "ACTIVE",
     "INACTIVE", "bogus"}

StateDocs ==
    {Doc(<<Member(1, <<Conn(state, <<1>>, <<Vlan("a4", "a6")>>)>>)>>) :
        state \in ConnectionStates}

StateCalls ==
    {[mode |-> "data", doc |-> d, remote |-> [ok |-> FALSE, doc |-> NoCache]] :
        d \in StateDocs}

NextStates ==
    \/ \E save \in BOOLEAN, call \in StateCalls : Update(save, call, NoId, TRUE)
    \/ Tick

SpecStates == InitVlans /\ [][NextStates]_vars

\* ---------------------------------------------------------------------
\* The importer with runs whose apply phase ends with an unhandled exception

FaultDocs ==
    { Doc(<<Member(1, <<Conn("active", <<1>>, <<Vlan("b4", "a6")>>)>>)>>),
      Doc(<<Member(1, <<Conn("active", <<1>>, <<Vlan("a4", "a6")>>)>>),
            Member(2, <<Conn("active", <<1>>, <<Vlan("b4", "b6")>>)>>)>>),
      Doc(<<Member(2, <<Conn("active", <<1>>, <<Vlan("b4", "b6")>>)>>)>>) }

FaultCalls ==
    {[mode |-> "data", doc |-> d, remote |-> [ok |-> FALSE, doc |-> NoCache]] :
        d \in FaultDocs}

\* update on a feed given as data, with the exception at the given position
update_faulty(w, save, call, fault) ==
    Then(reset([w EXCEPT !.imp.cache_only = FALSE], save, NoId), LAMBDA w0 :
    update_from(w0, call.doc, save, TRUE, fault))

UpdateFault(save, call, fault) ==
    /\ runs < MaxRuns
    /\ Then(update_faulty(World, save, call, fault), Becomes)
    /\ runs' = runs + 1
    /\ hist' = [hist EXCEPT !.call = call, !.asn = NoId, !.api_ok = TRUE,
                            !.again = FALSE, !.before_save = imp.save,
                            !.before_ret = ret, !.dispatches = 0]
    /\ UNCHANGED <<now, settings>>

InitFault ==
    /\ netixlans \in {<<>>, <<Netixlan(1, "a4", "a6", 1)>>,
                       <<Netixlan(1, "a4", "a6", 1), Netixlan(2, "a4", None, 1)>>}
    /\ proposals = {}
    /\ ixlan = [ixf_ixp_import_error |-> None, ixf_ixp_import_error_notified |-> NoTime]
    /\ ix = [ixf_last_import |-> NoTime, ixf_net_count |-> 0]
    /\ cache = NoCache
    /\ attempt = [data |-> <<>>, errors |-> <<>>]
    /\ archive = <<>>
    /\ tickets = <<>>
    /\ emails = <<>>
    /\ imp = NewImporter
    /\ ret = TRUE
    /\ now = 0
    /\ settings \in InitialSettings
    /\ runs = 0
    /\ txlog = <<>>
    /\ hist = [call |-> NoCall, asn |-> NoId, api_ok |-> TRUE, again |-> FALSE,
               before_save |-> FALSE, before_ret |-> FALSE, dispatches |-> 0,
               other_qset |-> {}, other_runs |-> 0,
               post_mortem |-> <<>>, post_mortem_args |-> <<NoId, <<>>>>]

NextFault ==
    \/ \E save \in BOOLEAN, call \in FaultCalls : Update(save, call, NoId, TRUE)
    \/ \E save \in BOOLEAN, call \in FaultCalls, fault \in 1..MaxFault :
          UpdateFault(save, call, fault)
    \/ Tick

SpecFault == InitFault /\ [][NextFault]_vars

\* ---------------------------------------------------------------------
\* The importer with calls of _ticket for each outcome of the ticket API

TicketSubjects ==
    {ErrorSubject, <<IxfId(2, "b4", "b6"), "IX-F Conflict Resolution">>}

\* a call of _ticket, as made by notify_error and ticket_proposal
Ticket(subject, outcome) ==
    /\ runs > 0
    /\ Len(tickets) < MaxTickets
    /\ Then(create_ticket([World EXCEPT !.imp.raised = None], NoId, subject, outcome),
            Becomes)
    /\ UNCHANGED <<now, settings, runs, hist>>

NextTickets ==
    \/ \E call \in MailCalls, api_ok \in BOOLEAN : Update(TRUE, call, NoId, api_ok)
    \/ \E subject \in TicketSubjects, outcome \in ApiOutcomes : Ticket(subject, outcome)
    \/ Tick

SpecTickets == InitVlans /\ [][NextTickets]_vars

\* ---------------------------------------------------------------------
\* The importer fetching its feed, or reading it from the cache

CacheDocs ==
    { Doc(<<Member(1, <<Conn("active", <<1>>, <<>>)>>)>>),
      Doc(<<Member(1, <<Conn("active", <<1>>, <<Vlan("a4", "a6")>>)>>)>>),
      Doc(<<Member(1, <<Conn("active", <<1>>,
                             <<Vlan("a4", None), Vlan(None, "a6")>>)>>)>>),
      Doc(<<Member(1, <<Conn("active", <<2>>, <<Vlan("a4", "a6")>>)>>)>>) }

\* what the url would answer to a request made during the call
CacheRemotes == {[ok |-> FALSE, doc |-> ErrorDoc(ERR_TRANSPORT)]} \cup
                {[ok |-> TRUE, doc |-> d] : d \in CacheDocs}

CacheCalls ==
    {[mode |-> mode, doc |-> NoCache, remote |-> r] :
        mode \in {"fetch", "cached"}, r \in CacheRemotes}

\* the cache is empty or holds what an earlier fetch stored
InitCache ==
    /\ netixlans \in {<<>>, <<Netixlan(1, "a4", "a6", 1)>>}
    /\ proposals = {}
    /\ ixlan = [ixf_ixp_import_error |-> None, ixf_ixp_import_error_notified |-> NoTime]
    /\ ix = [ixf_last_import |-> NoTime, ixf_net_count |-> 0]
    /\ cache \in {NoCache} \cup {FetchData(r) : r \in {x \in CacheRemotes :
                                                      FetchData(x).pdb_error = None}}
    /\ attempt = [data |-> <<>>, errors |-> <<>>]
    /\ archive = <<>>
    /\ tickets = <<>>
    /\ emails = <<>>
    /\ imp = NewImporter
    /\ ret = TRUE
    /\ now = 0
    /\ settings \in InitialSettings
    /\ runs = 0
    /\ txlog = <<>>
    /\ hist = [call |-> NoCall, asn |-> NoId, api_ok |-> TRUE, again |-> FALSE,
               before_save |-> FALSE, before_ret |-> FALSE, dispatches |-> 0,
               other_qset |-> {}, other_runs |-> 0,
               post_mortem |-> <<>>, post_mortem_args |-> <<NoId, <<>>>>]

NextCache ==
    \/ \E save \in BOOLEAN, call \in CacheCalls : Update(save, call, NoId, TRUE)
    \/ Tick

SpecCache == InitCache /\ [][NextCache]_vars

----------------------------------------------------------------------------
(* PostMortem *)

\* the entries of all import logs, oldest first, each with the time of its log
RECURSIVE LogEntries(_)
LogEntries(logs) ==
    IF logs = <<>> THEN <<>>
    ELSE LET log == Head(logs)
         IN  [i \in DOMAIN log.entries |-> [entry |-> log.entries[i], log |-> log]]
             \o LogEntries(Tail(logs))

Reverse(seq) == [i \in DOMAIN seq |-> seq[Len(seq) + 1 - i]]

FirstOf(seq, n) == SubSeq(seq, 1, IF n < Len(seq) THEN n ELSE Len(seq))

\* a _process_logs that takes the entries of every network
ProcessedEntries_any_asn(w, asn, limit) ==
    FirstOf(Reverse(LogEntries(w.archive)), limit)

\* PostMortem._process_logs: the entries that touched the asn, newest log
\* first and within a log the last entry first
ProcessedEntries(w, asn, limit) ==
    FirstOf(Reverse(SelectSeq(LogEntries(w.archive),
                              LAMBDA x : /\ w.netixlans[x.entry.netixlan].asn = asn
                                         /\ x.entry.action # None)),
            limit)

\* PostMortem._process_log_entry: the record of one entry
PostMortemRecord(w, x) ==
    [ixlan_id |-> ThisIxlan, reason |-> x.entry.reason, action |-> x.entry.action,
     asn |-> w.netixlans[x.entry.netixlan].asn, netixlan |-> x.entry.netixlan,
     version |-> x.entry.version_after, created |-> x.log.created]

\* PostMortem.reset: limit is 100 unless given
PostMortemLimit(kwargs) == IF kwargs = <<>> THEN 100 ELSE kwargs[1]

\* PostMortem.generate
generate(w, asn, kwargs) ==
    LET processed == ProcessedEntries(w, asn, PostMortemLimit(kwargs))
    IN  [i \in DOMAIN processed |-> PostMortemRecord(w, processed[i])]

PostMortemDocs ==
    { Doc(<<Member(1, <<Conn("active", <<1>>, <<Vlan("a4", "a6")>>)>>),
            Member(3, <<Conn("active", <<1>>, <<Vlan("b4", None)>>)>>)>>),
      Doc(<<Member(1, <<Conn("active", <<2>>, <<Vlan("a4", "a6")>>)>>),
            Member(3, <<Conn("active", <<1>>, <<Vlan("b4", None)>>)>>)>>),
      Doc(<<Member(1, <<Conn("active", <<1>>, <<Vlan("a4", "a6")>>)>>)>>) }

PostMortemCalls ==
    {[mode |-> "data", doc |-> d, remote |-> [ok |-> FALSE, doc |-> NoCache]] :
        d \in PostMortemDocs}

Generate(asn, kwargs) ==
    /\ runs > 0
    /\ hist' = [hist EXCEPT !.post_mortem = generate(World, asn, kwargs),
                            !.post_mortem_args = <<asn, kwargs>>]
    /\ UNCHANGED <<netixlans, proposals, ixlan, ix, cache, attempt, archive, tickets,
                   emails, imp, ret, now, settings, runs, txlog>>

NextPostMortem ==
    \/ \E call \in PostMortemCalls : Update(TRUE, call, NoId, TRUE)
    \/ \E asn \in {1, 3}, kwargs \in {<<>>, <<0>>, <<1>>, <<2>>} : Generate(asn, kwargs)
    \/ Tick

SpecPostMortem == InitVlans /\ [][NextPostMortem]_vars

\* the same importer with what happens between two runs outside of it: a
\* network removes a record of its own, a network creates the record a stored
\* proposal asks for, and the caller switches the importer to skip_import
AdminDocs ==
    { Doc(<<Member(1, <<Conn("active", <<1>>, <<Vlan("a4", "a6")>>)>>)>>),
      Doc(<<Member(2, <<Conn("active", <<1>>, <<Vlan("b4", "b6")>>)>>)>>),
      Doc(<<Member(1, <<Conn("active", <<1>>, <<Vlan("b4", "a6")>>)>>)>>) }

AdminCalls ==
    {[mode |-> "data", doc |-> d, remote |-> [ok |-> FALSE, doc |-> NoCache]] :
        d \in AdminDocs}

\* a network soft-deletes an active record of its own
NetworkDeletes(i) ==
    /\ runs > 0 /\ runs < MaxRuns
    /\ netixlans[i].status = "ok"
    /\ ~Network(netixlans[i].asn).allow_ixp_update
    /\ netixlans' = [netixlans EXCEPT ![i].status = "deleted",
                                      ![i].version = netixlans[i].version + 1]
    /\ UNCHANGED <<proposals, ixlan, ix, cache, attempt, archive, tickets, emails,
                   imp, ret, now, settings, runs, txlog, hist>>

\* a network creates the record that a stored proposal suggests
NetworkAdds(p) ==
    /\ runs > 0 /\ runs < MaxRuns
    /\ p.has_data
    /\ AnyAt(World, Key(p)) = {}
    /\ \A i \in DOMAIN netixlans :
          netixlans[i].status = "ok" =>
              ~Holds4(netixlans[i], p.ipaddr4) /\ ~Holds6(netixlans[i], p.ipaddr6)
    /\ netixlans' = Append(netixlans, NewNetixlan(World, p, 1))
    /\ UNCHANGED <<proposals, ixlan, ix, cache, attempt, archive, tickets, emails,
                   imp, ret, now, settings, runs, txlog, hist>>

\* the caller sets importer.skip_import = True before the next run
SkipImport ==
    /\ runs > 0 /\ runs < MaxRuns
    /\ ~imp.skip_import
    /\ imp' = [imp EXCEPT !.skip_import = TRUE]
    /\ UNCHANGED <<netixlans, proposals, ixlan, ix, cache, attempt, archive, tickets,
                   emails, ret, now, settings, runs, txlog, hist>>

NextAdmin ==
    \/ \E save \in BOOLEAN, call \in AdminCalls, asn \in AsnArgs :
          Update(save, call, asn, TRUE)
    \/ \E i \in DOMAIN netixlans : NetworkDeletes(i)
    \/ \E p \in proposals : NetworkAdds(p)
    \/ SkipImport

SpecAdmin == Init /\ [][NextAdmin]_vars

\* the same importer while a run for another IXLAN is in its aging step: the
\* table holds a proposal of that IXLAN, whose addresses lie in its prefixes
ForeignProposal ==
    [asn |-> 2, ipaddr4 |-> "c4", ipaddr6 |-> None, speed |-> 1,
     operational |-> TRUE, is_rs_peer |-> FALSE, has_data |-> TRUE,
     ixlan |-> OtherIxlan, reason |-> REASON_NEW_ENTRY, error |-> None,
     deskpro_id |-> NoId, created |-> 0, updated |-> 0, requirement_of |-> NoKey]

MaxOtherRuns == 1

InitLans ==
    /\ netixlans \in InitialNetixlans
    /\ proposals \in {{}, {ForeignProposal}}
    /\ ixlan = [ixf_ixp_import_error |-> None, ixf_ixp_import_error_notified |-> NoTime]
    /\ ix = [ixf_last_import |-> NoTime, ixf_net_count |-> 0]
    /\ cache = NoCache
    /\ attempt = [data |-> <<>>, errors |-> <<>>]
    /\ archive = <<>>
    /\ tickets = <<>>
    /\ emails = <<>>
    /\ imp = NewImporter
    /\ ret = TRUE
    /\ now = 0
    /\ settings \in InitialSettings
    /\ runs = 0
    /\ txlog = <<>>
    /\ hist = [call |-> NoCall, asn |-> NoId, api_ok |-> TRUE, again |-> FALSE,
               before_save |-> FALSE, before_ret |-> FALSE, dispatches |-> 0,
               other_qset |-> {}, other_runs |-> 0,
               post_mortem |-> <<>>, post_mortem_args |-> <<NoId, <<>>>>]

\* the run for the other IXLAN evaluates the queryset of ticket_aged_proposals
OtherReads ==
    /\ hist.other_runs < MaxOtherRuns
    /\ hist.other_qset = {}
    /\ AgedProposals(World) # {}
    /\ hist' = [hist EXCEPT !.other_qset = AgedProposals(World)]
    /\ UNCHANGED <<netixlans, proposals, ixlan, ix, cache, attempt, archive, tickets,
                   emails, imp, ret, now, settings, runs, txlog>>

\* and tickets the proposals it read
OtherTickets ==
    /\ hist.other_qset # {}
    /\ Then(ticket_aged_loop(World, SetToSeq(hist.other_qset), TRUE), Becomes)
    /\ hist' = [hist EXCEPT !.other_qset = {}, !.other_runs = hist.other_runs + 1]
    /\ UNCHANGED <<now, settings, runs>>

NextLans ==
    \/ \E save \in BOOLEAN, call \in AdminCalls : Update(save, call, NoId, TRUE)
    \/ OtherReads
    \/ OtherTickets
    \/ Tick

SpecLans == InitLans /\ [][NextLans]_vars

\* ---------------------------------------------------------------------
\* The importer on an IXLAN where an earlier run has left a Proposal

\* the Proposal an earlier run stored for the record of ASN 2 that its feed
\* did not list
StoredProposal ==
    [asn |-> 2, ipaddr4 |-> "b4", ipaddr6 |-> None, speed |-> 0,
     operational |-> TRUE, is_rs_peer |-> FALSE, has_data |-> FALSE,
     ixlan |-> ThisIxlan, reason |-> REASON_ENTRY_GONE_FROM_REMOTE, error |-> None,
     deskpro_id |-> NoId, created |-> 0, updated |-> 0, requirement_of |-> NoKey]

AgingDocs ==
    { Doc(<<Member(1, <<Conn("active", <<1>>, <<Vlan("a4", "a6")>>)>>)>>),
      Doc(<<Member(1, <<Conn("active", <<2>>, <<Vlan("a4", "a6")>>)>>)>>) }

AgingCalls ==
    {[mode |-> "data", doc |-> d, remote |-> [ok |-> FALSE, doc |-> NoCache]] :
        d \in AgingDocs}

InitAging ==
    /\ netixlans \in {<<Netixlan(2, "b4", None, 1)>>,
                       <<Netixlan(1, "a4", "a6", 1), Netixlan(2, "b4", None, 1)>>}
    /\ proposals = {StoredProposal}
    /\ ixlan = [ixf_ixp_import_error |-> None, ixf_ixp_import_error_notified |-> NoTime]
    /\ ix = [ixf_last_import |-> NoTime, ixf_net_count |-> 0]
    /\ cache = NoCache
    /\ attempt = [data |-> <<>>, errors |-> <<>>]
    /\ archive = <<>>
    /\ tickets = <<>>
    /\ emails = <<>>
    /\ imp = NewImporter
    /\ ret = TRUE
    /\ now = 0
    /\ settings \in InitialSettings
    /\ runs = 0
    /\ txlog = <<>>
    /\ hist = [call |-> NoCall, asn |-> NoId, api_ok |-> TRUE, again |-> FALSE,
               before_save |-> FALSE, before_ret |-> FALSE, dispatches |-> 0,
               other_qset |-> {}, other_runs |-> 0,
               post_mortem |-> <<>>, post_mortem_args |-> <<NoId, <<>>>>]

NextAging ==
    \/ \E save \in BOOLEAN, call \in AgingCalls, api_ok \in BOOLEAN :
          Update(save, call, NoId, api_ok)
    \/ Tick

SpecAging == InitAging /\ [][NextAging]_vars

----------------------------------------------------------------------------
(* Properties *)

\* C1: in every run that reaches the apply phase, every deletion decision is
\* executed before any add or update: no save of the run precedes a delete of
\* the same run in the order the transaction executes them.
C1_DeletesBeforeSaves ==
    \A i, j \in DOMAIN txlog :
        (txlog[i].phase = "save" /\ txlog[j].phase = "delete") => j < i

\* a run that executed a deletion and a save
C1_Witness ==
    /\ \E i \in DOMAIN txlog : txlog[i].phase = "delete"
    /\ \E i \in DOMAIN txlog : txlog[i].phase = "save"

\* a run with save=true that went through to its end
CommittedSaveRun == runs > 0 /\ imp.save /\ ret /\ ~imp.skip_import

SeenOrDeleted(r) == InIxfIds(World, Key(r)) \/ r.status = "deleted"

\* C2 as stated: after a committed run with save=true every connection record
\* of the IXLAN has its identity key in the seen-set of the run's feed, or has
\* status deleted.
C2_SeenOrDeleted_AsStated ==
    CommittedSaveRun =>
        \A i \in DOMAIN netixlans : SeenOrDeleted(netixlans[i])

\* C2: after a committed run with save=true every connection record of a
\* network that allows exchange updates, and that the run's asn filter (if
\* any) selects, has its identity key in the seen-set of the run's feed, or
\* has status deleted.
C2_SeenOrDeleted ==
    CommittedSaveRun =>
        \A i \in DOMAIN netixlans :
            (/\ Network(netixlans[i].asn).allow_ixp_update
             /\ imp.asn # NoId => netixlans[i].asn = imp.asn)
            => SeenOrDeleted(netixlans[i])

\* a committed save run that deleted the record of a consenting network whose
\* key the feed no longer holds
C2_Witness ==
    /\ CommittedSaveRun
    /\ \E i \in DOMAIN imp.actions_taken.delete :
          LET r == netixlans[imp.actions_taken.delete[i].netixlan]
          IN  r.status = "deleted" /\ ~InIxfIds(World, Key(r))

\* the connection records of the networks that do not allow exchange updates
ProtectedRecords(table) ==
    {<<i, table[i]>> : i \in {j \in DOMAIN table : ~Network(table[j].asn).allow_ixp_update}}

SuggestActions == {"suggest-add", "suggest-modify", "suggest-delete"}

\* every suggestion of the log has its proposal in the table
SuggestionsStored(data, table) ==
    \A i \in DOMAIN data :
        data[i].action \in SuggestActions =>
            \E p \in table : Key(p) = IxfId(data[i].asn, data[i].ipaddr4, data[i].ipaddr6)

\* C3: no run creates, modifies or soft-deletes a connection record of a
\* network with allow_ixp_update = false; each add, modify or delete decided
\* for such a network by a run with save=true is a stored proposal after it.
C3_ConsentGate ==
    [][/\ ProtectedRecords(netixlans') = ProtectedRecords(netixlans)
       /\ (imp'.save /\ ret') => SuggestionsStored(imp'.log.data, proposals')]_vars

\* a save run that decided a change for a network that does not allow updates
C3_Witness ==
    /\ CommittedSaveRun
    /\ \E i \in DOMAIN imp.log.data :
          /\ imp.log.data[i].action \in SuggestActions
          /\ ~Network(imp.log.data[i].asn).allow_ixp_update
    /\ proposals # {}

\* the last run was a committed save run that repeated the call of a
\* committed save run before it
SecondSaveRun ==
    CommittedSaveRun /\ hist.again /\ hist.before_save /\ hist.before_ret

ActionsOf(data) == {data[i].action : i \in DOMAIN data}

ConsentingProposals == {p \in proposals : Network(p.asn).allow_ixp_update}

\* C5 as stated: after a save run has applied its decisions, running again on
\* the same feed leaves no proposal, open or conflicted, for the networks with
\* allow_ixp_update = true.
C5_RoundTrip_AsStated == SecondSaveRun => ConsentingProposals = {}

\* C5: after a save run has applied its decisions, running again on the same
\* feed leaves no proposal for the networks with allow_ixp_update = true
\* other than the conflicted ones, whose application raised a validation
\* error in both runs.
C5_RoundTrip ==
    SecondSaveRun => \A p \in ConsentingProposals : p.error # None

\* a second save run after which a conflicted proposal of a consenting network
\* is still stored, the first run having applied a deletion
C5_Witness ==
    /\ SecondSaveRun
    /\ archive[1].entries # <<>>
    /\ \E p \in ConsentingProposals : p.error # None

\* the last run, with save=true, deleted the single-stack record (asn, v4, none)
\* of a consenting network and added the feed row (asn, v4, v6): the record
\* deleted, and the row
ConsolidationCases ==
    {<<imp.actions_taken.delete[i].netixlan, imp.pending_save[j]>> :
        i \in DOMAIN imp.actions_taken.delete, j \in DOMAIN imp.pending_save}

IsConsolidationCase(id, m) ==
    /\ CommittedSaveRun
    /\ imp.actions_taken.add # <<>>
    /\ m.ipaddr4 # None /\ m.ipaddr6 # None
    /\ \E d \in imp.deletions :
          d.asn = m.asn /\ d.ipaddr4 = m.ipaddr4 /\ d.ipaddr6 = None
    /\ netixlans[id].asn = m.asn /\ netixlans[id].ipaddr4 = m.ipaddr4

\* one active record holds the address v4 of the network, with both addresses
SingleRecord(m) ==
    LET holders == {i \in DOMAIN netixlans :
                       /\ netixlans[i].status = "ok"
                       /\ netixlans[i].asn = m.asn
                       /\ netixlans[i].ipaddr4 = m.ipaddr4}
    IN  /\ Cardinality(holders) = 1
        /\ \A i \in holders : netixlans[i].ipaddr6 = m.ipaddr6

\* the actions the archive of the last run holds for a record
ArchivedActions(id) ==
    LET entries == archive[Len(archive)].entries
    IN  {entries[i].action : i \in {j \in DOMAIN entries : entries[j].netixlan = id}}

PreviewStep == runs' = runs + 1 /\ ~imp'.save

\* C7 as stated: a run of update with save=false writes nothing to the
\* database (connection records, proposals, IXLAN fields, exchange fields,
\* attempt log, archive), sends no email and creates no ticket, on every path.
C7_PreviewWritesNothing_AsStated ==
    [][PreviewStep =>
          UNCHANGED <<netixlans, proposals, ixlan, ix, attempt, archive,
                      tickets, emails>>]_vars

\* the decision stream of a log: its actions with their reasons, in order
Decisions(data) == [i \in DOMAIN data |-> <<data[i].action, data[i].reason>>]

\* C8 as stated: for the same feed and the same starting database state, a run
\* with save=false logs the same sequence of actions, with the same reasons,
\* as a run with save=true.
C8_SameDecisions_AsStated ==
    [][PreviewStep =>
          Decisions(imp'.log.data) =
              Decisions(update(World, TRUE, hist'.call, hist'.asn, TRUE).imp.log.data)]_vars

\* the step is a call of update on a document in which no connection has a
\* vlan_list entry
NoVlanStep ==
    /\ runs' = runs + 1
    /\ \/ hist'.call.mode = "data" /\ ~VlanListFound(hist'.call.doc)
       \/ /\ hist'.call.mode = "fetch"
          /\ hist'.call.remote.ok
          /\ ~VlanListFound(hist'.call.remote.doc)
       \/ hist'.call.mode = "cached" /\ cache # NoCache /\ ~VlanListFound(cache)

\* C9 as stated: for every document without any vlan_list entry, fetched,
\* cached or passed as data, update flags the no-VLAN error and returns False,
\* and no connection record is created, modified or deleted.
C9_NoVlanAborts_AsStated ==
    [][NoVlanStep =>
          /\ ret' = FALSE
          /\ imp'.log.errors = <<ERR_NO_VLANS>>
          /\ netixlans' = netixlans]_vars

\* the proposal has reached the age at which it is ticketed
Aged(p) == p.created + IXF_IMPORTER_DAYS_UNTIL_TICKET <= now

\* a run with save=true has just gone through to its end
JustCommitted == CommittedSaveRun /\ imp.now = now

ErrorNotifications(mails) ==
    Cardinality({i \in DOMAIN mails :
                    mails[i].subject = <<NoKey, "Could not process IX-F Data">>})

\* C11: across any sequence of runs on the IXLAN, a feed-error notification is
\* issued only if none was issued before or the last one is at least
\* IXF_PARSE_ERROR_NOTIFICATION_PERIOD hours old; the IXLAN's "last notified"
\* time is then set to the time of the notification, and it changes in no other
\* way, so that two notifications are never less than the period apart.
C11_Throttle ==
    [][/\ ErrorNotifications(emails') > ErrorNotifications(emails) =>
              /\ ErrorNotifications(emails') = ErrorNotifications(emails) + 1
              /\ \/ ixlan.ixf_ixp_import_error_notified = NoTime
                 \/ (now - ixlan.ixf_ixp_import_error_notified) * HoursPerDay
                        >= IXF_PARSE_ERROR_NOTIFICATION_PERIOD
              /\ ixlan'.ixf_ixp_import_error_notified = now
       /\ ixlan'.ixf_ixp_import_error_notified # ixlan.ixf_ixp_import_error_notified =>
              ErrorNotifications(emails') > ErrorNotifications(emails)]_vars

\* two feed-error notifications have been issued, the second by the failed save
\* run just over, on the last day of the clock
C11_Witness ==
    /\ ErrorNotifications(emails) = 2
    /\ ixlan.ixf_ixp_import_error_notified = MaxTime
    /\ imp.save /\ ~ret

\* the document has a member or a connection the importer is to ignore, and
\* every member has its asnum
HasIgnorable(data) ==
    /\ \A i \in DOMAIN data.member_list : data.member_list[i].asnum # NoId
    /\ \E i \in DOMAIN data.member_list :
          LET member == data.member_list[i] IN
          \/ member.member_type \notin allowed_member_types
          \/ ~NetworkExists(member.asnum)
          \/ Network(member.asnum).status # "ok"
          \/ \E j \in DOMAIN member.connection_list :
                member.connection_list[j].state \notin allowed_states

IgnoreLogged(data) == \E i \in DOMAIN data : data[i].action = "ignore"

\* the step is a call of update on a document with something to ignore
IgnoringStep == runs' = runs + 1 /\ HasIgnorable(hist'.call.doc)

\* C12 as stated: a member of a member_type that is not allowed, a member whose
\* ASN has no network or a network not in status ok, and a connection in a
\* state that is not allowed are skipped with an ignore entry in the log, and
\* the run goes on and completes normally.
C12_IgnoreAndContinue_AsStated ==
    [][IgnoringStep =>
          /\ imp'.raised = None
          /\ ret'
          /\ IgnoreLogged(imp'.log.data)]_vars

\* the keys whose application raised a ValidationError in the run
InvalidKeys(log) == {log[i].key : i \in {j \in DOMAIN log : log[j].phase = "invalid"}}

ConflictQueued(notifications, key) ==
    \E i \in DOMAIN notifications :
        notifications[i].typ = "conflict" /\ notifications[i].ixf_member_data = key

Conflicted(stored, key) ==
    \E p \in stored : Key(p) = key /\ p.error = "ValidationError"

Phases(log, phase) == {i \in DOMAIN log : log[i].phase = phase}

\* the run of the step went through all its decisions and committed them
RunCommitted ==
    /\ imp'.raised = None
    /\ ret'
    /\ Cardinality(Phases(txlog', "save")) = Len(imp'.pending_save)
    /\ Phases(txlog', "commit") # {}

FeedRows(data) ==
    UNION {UNION {{IxfId(data.member_list[i].asnum,
                         data.member_list[i].connection_list[j].vlan_list[k].ipv4,
                         data.member_list[i].connection_list[j].vlan_list[k].ipv6) :
                      k \in DOMAIN data.member_list[i].connection_list[j].vlan_list} :
                  j \in DOMAIN data.member_list[i].connection_list} :
           i \in DOMAIN data.member_list}

\* a row with both addresses of a network that has switched one protocol off
DualDenied(row) ==
    /\ row[2] # None /\ row[3] # None
    /\ ~OutsidePrefixes(row[2], row[3])
    /\ NetworkExists(row[1])
    /\ ~Network(row[1]).ipv4_support \/ ~Network(row[1]).ipv6_support

Seen(ids, key) == \E i \in DOMAIN ids : ids[i] = key

DeleteDecided(log, key) ==
    \E i \in DOMAIN log : log[i].phase = "delete" /\ log[i].key = key

\* the step is a call of update that parsed its document to the end
ParsedStep == runs' = runs + 1 /\ ret' /\ imp'.raised = None /\ hist'.call.mode = "data"

\* the auxiliary key of the protocol the network supports, and the other one
SupportedAux(row) ==
    IF ~Network(row[1]).ipv6_support THEN IxfId(row[1], row[2], None)
    ELSE IxfId(row[1], None, row[3])

DeniedAux(row) ==
    IF ~Network(row[1]).ipv6_support THEN IxfId(row[1], None, row[3])
    ELSE IxfId(row[1], row[2], None)

\* C14 as stated: for a feed row with both addresses whose network declares
\* one protocol unsupported, the seen-set after parsing holds the full key and
\* both auxiliary keys, and no record holding either auxiliary key receives a
\* delete decision in the run.
C14_AuxiliaryKeys_AsStated ==
    [][ParsedStep =>
          \A row \in FeedRows(hist'.call.doc) : DualDenied(row) =>
              /\ Seen(imp'.ixf_ids, row)
              /\ Seen(imp'.ixf_ids, IxfId(row[1], row[2], None))
              /\ Seen(imp'.ixf_ids, IxfId(row[1], None, row[3]))
              /\ ~DeleteDecided(txlog', IxfId(row[1], row[2], None))
              /\ ~DeleteDecided(txlog', IxfId(row[1], None, row[3]))]_vars

\* C14: for such a row the seen-set after parsing holds the full key and the
\* auxiliary key of the protocol the network supports, whose record receives
\* no delete decision; the auxiliary key of the protocol switched off is in
\* the seen-set only if the feed lists it as a row of its own, and otherwise an
\* active record holding it receives a delete decision in the run.
C14_AuxiliaryKeys ==
    [][ParsedStep =>
          \A row \in FeedRows(hist'.call.doc) : DualDenied(row) =>
              /\ Seen(imp'.ixf_ids, row)
              /\ Seen(imp'.ixf_ids, SupportedAux(row))
              /\ ~DeleteDecided(txlog', SupportedAux(row))
              /\ Seen(imp'.ixf_ids, DeniedAux(row))
                    <=> DeniedAux(row) \in FeedRows(hist'.call.doc)
              /\ DeniedAux(row) \notin FeedRows(hist'.call.doc) =>
                    \A i \in DOMAIN netixlans :
                        (netixlans[i].status = "ok" /\ Key(netixlans[i]) = DeniedAux(row))
                            => DeleteDecided(txlog', DeniedAux(row))]_vars

\* a run on a dual row of a network that has switched one protocol off kept
\* the record of the address it supports and deleted the record of the other
C14_Witness ==
    /\ runs > 0 /\ ret /\ imp.save /\ hist.call.mode = "data"
    /\ \E row \in FeedRows(hist.call.doc) :
          /\ DualDenied(row)
          /\ Seen(imp.ixf_ids, row)
          /\ Seen(imp.ixf_ids, SupportedAux(row))
          /\ ~Seen(imp.ixf_ids, DeniedAux(row))
          /\ DeleteDecided(txlog, DeniedAux(row))
          /\ \E i \in DOMAIN netixlans :
                Key(netixlans[i]) = DeniedAux(row) /\ netixlans[i].status = "deleted"
          /\ \E i \in DOMAIN netixlans :
                Key(netixlans[i]) = SupportedAux(row) /\ netixlans[i].status = "ok"

\* a row, inside the prefixes, with an address of a family its network denies
Denied(row) ==
    /\ NetworkExists(row[1])
    /\ ~OutsidePrefixes(row[2], row[3])
    /\ \/ row[2] # None /\ ~Network(row[1]).ipv4_support
       \/ row[3] # None /\ ~Network(row[1]).ipv6_support

\* the row carries an address of a family its network supports
HasSupported(row) ==
    \/ row[2] # None /\ Network(row[1]).ipv4_support
    \/ row[3] # None /\ Network(row[1]).ipv6_support

\* the key the row has once the denied address is left out
Stripped(row) == IxfId(row[1], Supported4(row[1], row[2]), Supported6(row[1], row[3]))

ProtocolConflictQueued(notifications, row) ==
    \E i \in DOMAIN notifications :
        notifications[i].typ = "protocol-conflict" /\ notifications[i].ixf_member_data = row

\* the run applied an add or a modify to the record of the key
Applied(data, key) ==
    \E i \in DOMAIN data :
        /\ data[i].action \in {"add", "modify"}
        /\ IxfId(data[i].asn, data[i].ipaddr4, data[i].ipaddr6) = key

SaveDecided(log, key) ==
    \E i \in DOMAIN log : log[i].phase = "save" /\ log[i].key = key

DeletionPassStep == runs' = runs + 1 /\ Phases(txlog', "commit") # {}

\* the delete entries of the log all carry the reason of the deletion pass
GoneFromRemote(data) ==
    \A i \in DOMAIN data :
        data[i].action \in {"delete", "suggest-delete"} =>
            data[i].reason = REASON_ENTRY_GONE_FROM_REMOTE

\* C16 as stated: in the deletion pass an active record of the IXLAN receives
\* a delete decision, with reason 'entry gone from remote', if and only if its
\* exact key (asn, ipv4, ipv6) is not in the seen-set.
C16_DeleteIffUnseen_AsStated ==
    [][DeletionPassStep =>
          /\ GoneFromRemote(imp'.log.data)
          /\ \A i \in DOMAIN netixlans : netixlans[i].status = "ok" =>
                (DeleteDecided(txlog', Key(netixlans[i]))
                    <=> ~Seen(imp'.ixf_ids, Key(netixlans[i])))]_vars

\* C16: in the deletion pass an active record of the IXLAN that the run's asn
\* filter (if any) selects receives a delete decision, with reason 'entry gone
\* from remote', if and only if its exact key is not in the seen-set; a record
\* of another ASN receives none.
C16_DeleteIffUnseen ==
    [][DeletionPassStep =>
          /\ GoneFromRemote(imp'.log.data)
          /\ \A i \in DOMAIN netixlans : netixlans[i].status = "ok" =>
                (DeleteDecided(txlog', Key(netixlans[i]))
                    <=> /\ ~Seen(imp'.ixf_ids, Key(netixlans[i]))
                        /\ imp'.asn # NoId => netixlans[i].asn = imp'.asn)]_vars

\* a run whose feed lists (1, a4, a6) decided the deletion of the record
\* (1, a4, none): the key with none is not matched by the key with both
C16_Witness ==
    /\ runs > 0 /\ ret
    /\ Seen(imp.ixf_ids, IxfId(1, "a4", "a6"))
    /\ ~Seen(imp.ixf_ids, IxfId(1, "a4", None))
    /\ DeleteDecided(txlog, IxfId(1, "a4", None))
    /\ \E i \in DOMAIN netixlans : Key(netixlans[i]) = IxfId(1, "a4", None)

\* every step a of the run is over before any step b
Before(log, a, b) ==
    \A i, j \in DOMAIN log : (log[i].phase = a /\ log[j].phase = b) => i < j

\* the last call of update was a successful run with save=true
SuccessfulSaveRun == runs > 0 /\ imp.save /\ ret /\ imp.raised = None /\ ~imp.skip_import

\* C17 as stated: in a successful run with save=true the queued notifications
\* are consolidated and dispatched after the transaction commits and before
\* aging-to-ticket runs, and the archive is written after the commit.
C17_DispatchOrder_AsStated ==
    (SuccessfulSaveRun /\ Phases(txlog, "notify") # {}) =>
        /\ Before(txlog, "commit", "notify")
        /\ Before(txlog, "notify", "aging")
        /\ Before(txlog, "commit", "archive")

\* C17: a successful run with save=true commits its transaction, then runs
\* aging-to-ticket, then writes the archive, and dispatches nothing; the
\* notifications it queued are consolidated and dispatched by a call of
\* notify_proposals made after update has returned, hence after the commit,
\* the aging and the archive.
C17_DispatchOrder ==
    SuccessfulSaveRun =>
        /\ Phases(txlog, "commit") # {}
        /\ Phases(txlog, "aging") # {}
        /\ Phases(txlog, "archive") # {}
        /\ Before(txlog, "commit", "aging")
        /\ Before(txlog, "aging", "archive")
        /\ Before(txlog, "archive", "notify")
        /\ Phases(txlog, "notify") # {} => hist.dispatches > 0

\* the notifications of a successful run with save=true were dispatched
C17_Witness ==
    /\ SuccessfulSaveRun
    /\ Phases(txlog, "notify") # {}
    /\ hist.dispatches = 1
    /\ imp.notifications # <<>>
    /\ \E i \in DOMAIN emails : emails[i].subject[2] = "IX-F Importer data mismatch"

\* the members of the list before position i are parsed without an exception
ParsedBefore(list, i) ==
    \A j \in 1..(i - 1) :
        /\ list[j].member_type \in allowed_member_types
        /\ list[j].asnum # NoId
        /\ NetworkExists(list[j].asnum)
        /\ Network(list[j].asnum).status = "ok"
        /\ \A c \in DOMAIN list[j].connection_list :
              list[j].connection_list[c].state \in allowed_states

\* parsing the document reaches a member without its asnum
LacksAsnum(data) ==
    \E i \in DOMAIN data.member_list :
        /\ data.member_list[i].member_type \in allowed_member_types
        /\ data.member_list[i].asnum = NoId
        /\ ParsedBefore(data.member_list, i)

\* the step is a call of update whose parse raises KeyError
KeyErrorStep ==
    runs' = runs + 1 /\ hist'.call.mode = "data" /\ LacksAsnum(hist'.call.doc)

\* C18: if parsing raises a KeyError, update logs an internal error (and saves
\* the log when save=true) and returns False; nothing the parse did is left in
\* the database, and no deletion, save, cleanup, ticket or archive step of the
\* run is executed.
C18_KeyErrorAborts ==
    [][KeyErrorStep =>
          /\ ~ret'
          /\ imp'.log.errors # <<>>
          /\ imp'.log.errors[Len(imp'.log.errors)] = ERR_KEY_ERROR
          /\ attempt' = IF imp'.save THEN imp'.log ELSE attempt
          /\ txlog' = <<>>
          /\ imp'.actions_taken = NewImporter.actions_taken
          /\ UNCHANGED <<netixlans, proposals, tickets, archive, emails, ix>>]_vars

\* a run with save=true parsed the rows of a first member, met a member
\* without asnum, and left the records the feed does not list as they were
C18_Witness ==
    /\ runs > 0 /\ imp.save /\ ~ret
    /\ hist.call.mode = "data" /\ LacksAsnum(hist.call.doc)
    /\ imp.ixf_ids # <<>>
    /\ attempt.errors = <<ERR_KEY_ERROR>>
    /\ \E i \in DOMAIN netixlans :
          netixlans[i].status = "ok" /\ ~Seen(imp.ixf_ids, Key(netixlans[i]))

\* the document a call of update works on
DataOf(call) ==
    CASE call.mode = "data" -> call.doc
      [] call.mode = "cached" -> fetch_cached(World)
      [] OTHER -> FetchData(call.remote)

\* the step is a call of update whose document carries a pdb_error
PdbErrorStep == runs' = runs + 1 /\ DataOf(hist'.call).pdb_error # None

Obsolete(p) ==
    LET action == Action(World, Loaded(p)) IN
    \/ /\ action = "delete"
       /\ NetixlanOf(World, Key(p)) # NoId
       /\ netixlans[NetixlanOf(World, Key(p))].status = "deleted"
    \/ action = "noop"
    \/ action \in {"add", "modify"} /\ ~Seen(imp.ixf_ids, Key(p))

\* the same, as a run in skip_import mode sees it
ObsoleteFor(p) ==
    LET action == Action(World, Loaded(p)) IN
    \/ /\ action = "delete"
       /\ NetixlanOf(World, Key(p)) # NoId
       /\ netixlans[NetixlanOf(World, Key(p))].status = "deleted"
    \/ action = "noop"
    \/ action \in {"add", "modify"} /\ ~Seen(imp.ixf_ids, Key(p)) /\ ~imp.skip_import

\* the proposals the cleanup of the last run resolved, by the branch taken
CleanedUp(phase) == {txlog[i].key : i \in Phases(txlog, phase)}

AllCleanedUp ==
    CleanedUp("cleanup-delete") \cup CleanedUp("cleanup-noop") \cup CleanedUp("cleanup-gone")

\* what the cleanup of the last run resolved, it resolved on one of the three
\* conditions, and the proposal is gone
CleanedUpOnCondition ==
    /\ \A key \in CleanedUp("cleanup-delete") :
          /\ NetixlanOf(World, key) # NoId
          /\ netixlans[NetixlanOf(World, key)].status = "deleted"
    /\ \A key \in CleanedUp("cleanup-noop") : ActiveAt(World, key) # {}
    /\ \A key \in CleanedUp("cleanup-gone") : ~Seen(imp.ixf_ids, key)
    /\ \A key \in AllCleanedUp : \A p \in proposals : Key(p) # key

\* the step is a call of update with save=true that went through its cleanup
CleanupStep == runs' = runs + 1 /\ imp'.save /\ ret' /\ imp'.raised = None

\* C20 as stated: after the cleanup of a run with save=true, a Proposal of the
\* IXLAN is resolved exactly when it is a delete whose record is deleted, a
\* noop, or an add or modify whose key is not in the seen-set.
C20_Cleanup_AsStated ==
    [][CleanupStep =>
          (/\ CleanedUpOnCondition
           /\ \A p \in proposals : ~Obsolete(p))']_vars

\* C20: the same for the Proposals the run's asn filter (if any) selects, the
\* third case applying only to a run that is not in skip_import mode; a
\* Proposal of another ASN is left as it is, whatever its condition.
C20_Cleanup ==
    [][CleanupStep =>
          (/\ CleanedUpOnCondition
           /\ \A p \in proposals : (imp.asn # NoId => p.asn = imp.asn) => ~ObsoleteFor(p)
           /\ \A key \in AllCleanedUp : imp.asn # NoId => key[1] = imp.asn
           /\ imp.skip_import => CleanedUp("cleanup-gone") = {})']_vars

\* the cleanup of a second run resolved a delete proposal whose record the
\* network had deleted, or a proposal the network had fulfilled
C20_Witness ==
    /\ runs = 2 /\ imp.save /\ ret
    /\ CleanedUp("cleanup-delete") \cup CleanedUp("cleanup-noop") # {}
    /\ \A key \in AllCleanedUp : \A p \in proposals : Key(p) # key

\* the proposals of the other IXLAN
Foreign(table) == {p \in table : p.ixlan = OtherIxlan}

\* the tickets about a proposal of the table
TicketsOf(rows, p) ==
    {i \in DOMAIN rows : rows[i].subject[1] = Key(p)}

\* C21 as stated: a run for the IXLAN never creates, modifies, deletes,
\* resolves or tickets a Proposal of a different IXLAN, so that no Proposal
\* is ticketed by two runs for distinct IXLANs.
C21_Isolation_AsStated ==
    [][/\ runs' = runs + 1 =>
             /\ Foreign(proposals') = Foreign(proposals)
             /\ \A p \in Foreign(proposals) :
                   TicketsOf(tickets', p) = TicketsOf(tickets, p)
       /\ \A p \in proposals' : Cardinality(TicketsOf(tickets', p)) <= 1]_vars

\* ---------------------------------------------------------------------
\* C22: proposals of a side without a contact

DispatchStep == hist'.dispatches = hist.dispatches + 1

NoContact(n) == ~ix_contacts \/ ~net_contacts(n.ixf_member_data[1])

Uncontacted == {i \in DOMAIN Consolidated(World) : NoContact(Consolidated(World)[i])}

ResolutionSubject(n) == Subject(World, NotificationMember(World, n), n.typ)

NewEmails == {emails'[i] : i \in (Len(emails) + 1)..Len(emails')}

NewTickets == {tickets'[i] : i \in (Len(tickets) + 1)..Len(tickets')}

Counted(n) == n.typ # "protocol-conflict"

C23_TicketsDisabled_AsStated ==
    [][~settings.tickets_enabled => tickets' = tickets]_vars

\* C23: while IXF_TICKET_ON_CONFLICT is false no ticket is created for a
\* proposal, neither by the escalation of aged proposals nor by the routing
\* of proposals without a contact, and no proposal is given a ticket handle;
\* the only ticket a step creates is the one of a feed-error notification
C23_TicketsDisabled ==
    [][~settings.tickets_enabled =>
         /\ \A t \in NewTickets : t.subject = ErrorSubject
         /\ Cardinality(NewTickets) <= 1
         /\ NewTickets # {} => DataOf(hist'.call).pdb_error # None
         /\ \A p \in proposals' : p.deskpro_id = NoId]_vars

C23_Witness ==
    /\ ~settings.tickets_enabled
    /\ hist.dispatches = 1
    /\ Uncontacted # {}
    /\ AgedProposals(World) # {}
    /\ Phases(txlog, "aging") # {}
    /\ \E i \in DOMAIN tickets : tickets[i].subject = ErrorSubject

\* ---------------------------------------------------------------------
\* C24: the email log

NewEmailRows == (Len(emails) + 1)..Len(emails')

\* the step is a run whose feed error is notified, not throttled
ErrorNotifiedStep ==
    /\ runs' = runs + 1
    /\ ixlan'.ixf_ixp_import_error_notified # ixlan.ixf_ixp_import_error_notified

RunStep == runs' = runs + 1

\* the applied actions of the run whose record has a new version after it
ChangedTaken ==
    {x \in {"delete", "modify", "add"} \X (1..Len(netixlans') + 1) :
        /\ x[2] \in DOMAIN imp'.actions_taken[x[1]]
        /\ imp'.actions_taken[x[1]][x[2]].netixlan # NoId
        /\ netixlans'[imp'.actions_taken[x[1]][x[2]].netixlan].version
              # imp'.actions_taken[x[1]][x[2]].version}

TheRow == hist'.call.doc.member_list[1].connection_list[1].vlan_list[1]

OneRowStep == RunStep /\ hist'.call \in VlanCalls /\ ret' /\ imp'.raised = None

\* the row is added neither to the seen-set nor to the pending saves
Dropped == imp'.ixf_ids = <<>> /\ imp'.pending_save = <<>>

InPrefix4(lan) == lan.ipv4 \in ActivePrefix4
InPrefix6(lan) == lan.ipv6 \in ActivePrefix6

OutOfPrefix(lan) ==
    \/ lan.ipv4 # None /\ lan.ipv6 # None /\ ~InPrefix4(lan) /\ ~InPrefix6(lan)
    \/ lan.ipv4 # None /\ lan.ipv6 = None /\ ~InPrefix4(lan)
    \/ lan.ipv6 # None /\ lan.ipv4 = None /\ ~InPrefix6(lan)

\* C26 as stated: a VLAN row is dropped exactly when both addresses are
\* present and neither is in an active prefix, or only one is present and it
\* is not in an active prefix
C26_PrefixFilter_AsStated ==
    [][OneRowStep => (Dropped <=> OutOfPrefix(TheRow))]_vars

\* C26: a VLAN row is dropped exactly when it has no address, or one of its
\* addresses is not an IP address, or both addresses are present and neither
\* is in an active prefix, or only one is present and it is not in an active
\* prefix; a row with two well-formed addresses of which one is in-prefix is
\* kept
C26_PrefixFilter ==
    [][OneRowStep =>
         (Dropped <=>
             \/ TheRow.ipv4 = None /\ TheRow.ipv6 = None
             \/ TheRow.ipv4 \in InvalidAddresses
             \/ TheRow.ipv6 \in InvalidAddresses
             \/ OutOfPrefix(TheRow))]_vars

C26_Witness ==
    /\ runs = 2
    /\ hist.call \in VlanCalls
    /\ hist.call.doc.member_list[1].connection_list[1].vlan_list[1] = Vlan("x4", "a6")
    /\ imp.ixf_ids # <<>>
    /\ imp.pending_save # <<>>
    /\ hist.before_ret

\* ---------------------------------------------------------------------
\* C27: connection states

\* the state of the one connection of the feed of the step
TheState == hist'.call.doc.member_list[1].connection_list[1].state

StateStep == RunStep /\ hist'.call \in StateCalls

StatedStates == {Absent, "", None, "active", "inactive", "connected", "operational"}

\* C27 as stated: a connection whose state is absent, empty, null, active,
\* inactive, connected or operational does not abort the run and its VLAN row
\* is parsed into the seen-set
C27_AllowedStates_AsStated ==
    [][StateStep /\ TheState \in StatedStates =>
          /\ imp'.raised = None
          /\ ret'
          /\ imp'.ixf_ids # <<>>]_vars

\* ---------------------------------------------------------------------
\* C28: the post-mortem report

\* the step is a call of PostMortem.generate
GenerateStep ==
    /\ runs' = runs
    /\ \/ hist'.post_mortem # hist.post_mortem
       \/ hist'.post_mortem_args # hist.post_mortem_args

AskedAsn == hist'.post_mortem_args[1]

AskedLimit == PostMortemLimit(hist'.post_mortem_args[2])

Smaller(a, b) == IF a < b THEN a ELSE b

EntriesOfAsn ==
    SelectSeq(LogEntries(archive), LAMBDA x : netixlans[x.entry.netixlan].asn = AskedAsn)

FetchStep == RunStep /\ hist'.call.mode = "fetch"

CachedStep == RunStep /\ hist'.call.mode = "cached"

\* the answer of the url is a document the sanitizer accepts
Succeeds(remote) == remote.ok /\ VlanListFound(remote.doc)

\* the run of the step, had it been given the cached copy as its data
RunOnCache ==
    update(World, imp'.save,
           [mode |-> "data", doc |-> cache, remote |-> [ok |-> FALSE, doc |-> NoCache]],
           hist'.asn, hist'.api_ok)

\* C29: a fetch that succeeds replaces the cached copy by the sanitized
\* payload and a fetch that fails leaves it unchanged, so the cache holds the
\* payload of the most recent successful fetch; a run in cache-only mode
\* leaves the cache unchanged, fails with the not-cached error if nothing has
\* been cached, and otherwise is the run on the cached copy, whatever the url
\* would answer to a request
C29_Cache ==
    [][/\ FetchStep /\ Succeeds(hist'.call.remote)
             => cache' = sanitize(hist'.call.remote.doc)
       /\ FetchStep /\ ~Succeeds(hist'.call.remote) => cache' = cache
       /\ CachedStep => cache' = cache
       /\ CachedStep /\ cache = NoCache
             => ~ret' /\ imp'.log.errors = <<ERR_NOT_CACHED>>
       /\ CachedStep /\ cache # NoCache
             => /\ netixlans' = RunOnCache.netixlans
                /\ proposals' = RunOnCache.proposals
                /\ archive' = RunOnCache.archive
                /\ imp'.log = RunOnCache.imp.log
                /\ ret' = RunOnCache.ret]_vars

C29_Witness ==
    /\ runs = 2
    /\ hist.call.mode = "cached"
    /\ hist.call.remote.ok
    /\ cache # NoCache
    /\ cache # sanitize(hist.call.remote.doc)
    /\ cache.member_list[1].connection_list[1].if_list = <<2>>
    /\ \E i \in DOMAIN netixlans : netixlans[i].speed = 2
    /\ imp.save /\ ret

\* ---------------------------------------------------------------------
\* C30: failures of the ticket API

\* the step is a call of _ticket
TicketStep == runs' = runs /\ Len(tickets') = Len(tickets) + 1

\* the call to the ticket API failed: the ticket was not published
ApiFailed == tickets'[Len(tickets')].published = NoTime

\* C30 as stated: when the ticket API call fails, _ticket does not raise and
\* the ticket is persisted as failed, its subject prefixed by [FAILED]
C30_TicketFailure_AsStated ==
    [][TicketStep /\ ApiFailed =>
          /\ imp'.raised = None
          /\ tickets'[Len(tickets')].failed]_vars

\* ---------------------------------------------------------------------
\* C31: the apply phase is all-or-nothing

\* the step is a run whose apply phase ended with an unhandled exception
FaultStep == RunStep /\ imp'.raised = "DatabaseError"

\* C31: when process_deletions or process_saves ends with an unhandled
\* exception, the connection records and the proposals are those of before
\* the run, whatever the phase had deleted or saved by then, and nothing that
\* follows the phase (cleanup, aging, archive, the exchange's import fields)
\* happens
C31_AllOrNothing ==
    [][FaultStep =>
          /\ netixlans' = netixlans
          /\ proposals' = proposals
          /\ archive' = archive
          /\ tickets' = tickets
          /\ ix' = ix
          /\ ~ret']_vars

\* a saving run was stopped after its deletion pass had deleted a record and
\* its first save had been made, and the record is still active
C31_Witness ==
    /\ runs > 0
    /\ imp.save
    /\ imp.raised = "DatabaseError"
    /\ imp.actions_taken.delete # <<>>
    /\ imp.actions_taken.add # <<>>
    /\ \A i \in DOMAIN netixlans : netixlans[i].status = "ok"
    /\ Len(netixlans) = 1

\* C32: what a run requested for a single ASN leaves alone. As stated: such
\* a run changes no connection record and no Proposal of another ASN, and
\* takes no decision and queues no resolution about one.
AsnStep == runs' = runs + 1 /\ hist'.asn # NoId

OtherRecordsKept ==
    /\ \A i \in DOMAIN netixlans : netixlans[i].asn # hist'.asn =>
           i \in DOMAIN netixlans' /\ netixlans'[i] = netixlans[i]
    /\ \A i \in DOMAIN netixlans' : netixlans'[i].asn # hist'.asn =>
           i \in DOMAIN netixlans /\ netixlans'[i] = netixlans[i]

NoOtherDecision ==
    /\ \A i \in DOMAIN txlog' : txlog'[i].key = NoKey \/ txlog'[i].key[1] = hist'.asn
    /\ \A i \in DOMAIN imp'.notifications :
           imp'.notifications[i].ixf_member_data[1] = hist'.asn
    /\ \A i \in DOMAIN imp'.log.data : imp'.log.data[i].asn = hist'.asn

Unticketed(p) == [p EXCEPT !.deskpro_id = NoId, !.updated = NoTime]

FilteredState == IF TheState = Absent THEN "active" ELSE lower(TheState)

\* C33 as stated: a row that survives parsing is not operational if and only
\* if its connection's state is inactive in the spelling-insensitive sense of
\* the state filter
C33_Operational_AsStated ==
    [][StateStep /\ imp'.raised = None /\ TheState # None =>
          \A i \in DOMAIN imp'.pending_save :
              ~imp'.pending_save[i].operational <=> FilteredState = "inactive"]_vars

\* ---------------------------------------------------------------------
\* C34: escalation by aging

\* the escalations of a Proposal: the mails to the exchange that
\* ticket_proposal has logged under the Proposal's subject
Escalations(p) ==
    {i \in DOMAIN emails :
        /\ emails[i].subject = <<Key(p), "IX-F Conflict Resolution">>
        /\ emails[i].recipient = "ix"}

\* C34 as stated: over any sequence of saving runs a Proposal is escalated by
\* aging at most once, whether or not tickets are enabled and whether or not
\* the ticket API accepted the ticket
C34_EscalatedOnce_AsStated ==
    \A p \in proposals : Cardinality(Escalations(p)) <= 1

\* ---------------------------------------------------------------------
\* C35: the per-run state

\* the world with an Importer that has made no run yet, its constructor
\* arguments kept
Fresh(w) ==
    [w EXCEPT !.imp = [NewImporter EXCEPT !.cache_only = w.imp.cache_only,
                                          !.skip_import = w.imp.skip_import],
              !.txlog = <<>>]

\* C35: each call of update starts from a fresh per-run state: the run's
\* decisions, queued notifications, attempt log, archive and every other
\* effect are those the same call has on an Importer that has made no run
\* before, so the seen-set, deletions, pending saves, actions taken,
\* notification queue, invalid-IP errors and attempt log of the previous run
\* do not influence it
C35_FreshRun ==
    [][RunStep =>
          World' = update(Fresh(World), imp'.save, hist'.call, hist'.asn,
                          hist'.api_ok)]_vars

\* the same saving call twice: the first run applied changes, the second
\* found nothing to apply
C35_Witness ==
    /\ runs = 2
    /\ hist.again
    /\ hist.before_save /\ hist.before_ret
    /\ imp.save /\ ret
    /\ Len(archive) = 2
    /\ archive[1].entries # <<>>
    /\ archive[2].entries = <<>>
    /\ imp.ixf_ids # <<>>

\* ---------------------------------------------------------------------
\* C36: runs in skip_import mode

\* the step is a call of update on an Importer with skip_import set
SkipStep == RunStep /\ imp.skip_import

\* the phases the run went through, in order
PhasesOf(log) == {log[i].phase : i \in DOMAIN log}

\* C36: a run in skip_import mode whose feed and prefixes pass the checks
\* returns True after its cleanup alone: it parses nothing, decides no
\* deletion and saves nothing, so no connection record changes; the cleanup
\* resolves only delete Proposals whose record is deleted and noop Proposals,
\* and keeps every add and modify Proposal although the seen-set is empty;
\* the run neither ages Proposals into tickets nor writes an archive entry
C36_SkipImport ==
    [][SkipStep =>
          /\ ret' /\ imp'.raised = None /\ imp'.skip_import
          /\ netixlans' = netixlans
          /\ imp'.ixf_ids = <<>> /\ imp'.pending_save = <<>> /\ imp'.deletions = {}
          /\ imp'.actions_taken = [add |-> <<>>, delete |-> <<>>, modify |-> <<>>,
                                   noop |-> <<>>]
          /\ PhasesOf(txlog') \subseteq {"cleanup-delete", "cleanup-noop"}
          /\ proposals' \subseteq proposals
          /\ \A p \in proposals \ proposals' :
                \/ /\ Action(World, Loaded(p)) = "delete"
                   /\ NetixlanOf(World, Key(p)) # NoId
                   /\ netixlans[NetixlanOf(World, Key(p))].status = "deleted"
                \/ Action(World, Loaded(p)) = "noop"
          /\ \A p \in proposals :
                Action(World, Loaded(p)) \in {"add", "modify"} => p \in proposals'
          /\ archive' = archive /\ tickets' = tickets /\ emails' = emails
          /\ ix' = ix]_vars

\* a saving run in skip_import mode that resolved a proposal and kept an add
\* or modify proposal
C36_Witness ==
    /\ runs = 2 /\ imp.skip_import /\ imp.save /\ ret
    /\ CleanedUp("cleanup-delete") \cup CleanedUp("cleanup-noop") # {}
    /\ \E p \in proposals : Action(World, Loaded(p)) \in {"add", "modify"}

\* ---------------------------------------------------------------------
\* C37: the count of a consolidated bundle

\* the add, modify and delete messages of a bundle, over its other entities
RECURSIVE MessagesOf(_, _)
MessagesOf(bundle, others) ==
    IF others = {} THEN 0
    ELSE LET o == CHOOSE x \in others : TRUE
         IN  Len(bundle.proposals[o].add) + Len(bundle.proposals[o].modify)
                 + Len(bundle.proposals[o].delete)
                 + MessagesOf(bundle, others \ {o})

\* the queued notifications that are to be counted for a network, or (NoId)
\* for the exchange
ToCount(asn) ==
    {i \in DOMAIN imp.notifications :
        /\ imp.notifications[i].typ \notin {"resolved", "protocol-conflict"}
        /\ ~IsRequirement(World, imp.notifications[i].ixf_member_data)
        /\ IF asn = NoId THEN imp.notifications[i].ix
           ELSE imp.notifications[i].net /\ imp.notifications[i].ixf_member_data[1] = asn}

BundleCounts ==
    /\ \A asn \in DOMAIN consolidate_proposals(World).net :
          LET bundle == consolidate_proposals(World).net[asn]
          IN  /\ bundle.count = MessagesOf(bundle, DOMAIN bundle.proposals)
              /\ bundle.count = Cardinality(ToCount(asn))
    /\ \A x \in DOMAIN consolidate_proposals(World).ix :
          LET bundle == consolidate_proposals(World).ix[x]
          IN  /\ bundle.count = MessagesOf(bundle, DOMAIN bundle.proposals)
              /\ bundle.count = Cardinality(ToCount(NoId))

\* C37: the count of a recipient's bundle is the number of add, modify and
\* delete messages appended to it, which is the number of queued notifications
\* for that recipient that are neither of type resolved, nor about a
\* requirement of another proposal, nor protocol conflicts; notify_proposals
\* sends no consolidated email for a bundle whose count is 0, such as one that
\* holds only protocol conflicts. The counts are looked at in the state each
\* step starts from; the queue changes only in a run of update, and a
\* dispatch can follow every run.
C37_BundleCount ==
    [][/\ BundleCounts
       /\ DispatchStep /\ imp.save =>
             /\ \A asn \in DOMAIN consolidate_proposals(World).net :
                   consolidate_proposals(World).net[asn].count = 0 =>
                       \A e \in NewEmails : e.subject # MismatchSubject(asn)
             /\ (\A x \in DOMAIN consolidate_proposals(World).ix :
                     consolidate_proposals(World).ix[x].count = 0) =>
                       \A e \in NewEmails : e.subject # MismatchSubject(NoId)]_vars

\* after a dispatch of a saving run, a network whose bundle holds a protocol
\* conflict and nothing else has received no consolidated email
C37_Witness ==
    /\ hist.dispatches = 1 /\ imp.save
    /\ \E asn \in DOMAIN consolidate_proposals(World).net :
          /\ consolidate_proposals(World).net[asn].count = 0
          /\ consolidate_proposals(World).net[asn].proposals[ThisIx].protocol_conflict
                 # None
          /\ \A i \in DOMAIN emails : emails[i].subject # MismatchSubject(asn)


====
